---- MODULE Spec2Model ----
(***************************************************************************)
(* Playback engine of cli-modplayer (tracker::Player, src/src/player.cpp). *)
(*                                                                         *)
(* Three threads are modelled: the playback thread E (playback_loop), the  *)
(* control thread U (main and the UI event loop: start, stop,              *)
(* toggle_pause, setters, jumps, snapshot) and the export thread X (the    *)
(* detached thread of ui.cpp:412 running export_to_file).  A step runs     *)
(* from one blocking point to the next: a lock_guard block whose body      *)
(* takes no other lock is one step that needs its mutex free; a block that *)
(* takes a second lock inside (the refresh, the spectrum and waveform      *)
(* publication) ends its step there, holding the first.  Code that touches *)
(* shared data with no lock is a step with no such guard.                  *)
(***************************************************************************)
EXTENDS Integers, Sequences, FiniteSets, TLC

VARIABLES
    pc,                \* position of each thread in its code
    song,              \* the loaded module: order list and pattern lengths
    module_,           \* the decoder (openmpt::module): position, VU, end flag
    stream_active,     \* the PortAudio stream itself: started or stopped
    playback_thread_,  \* number of playback threads spawned and not joined
    running_, paused_, stop_requested_, finished_, stream_running_,
    volume_, current_effect_,
    state_mutex_, module_mutex_, spectrum_mutex_, waveform_mutex_,
    state_,            \* the published TransportState
    audio_effects_,    \* effect kinds whose internal state has advanced
    fft_write_pos_, spectrum_bands_,
    waveform_write_pos_, waveform_buffer_,
    eng,               \* locals of playback_loop
    ctl,               \* locals of the control thread's current call
    exp,               \* locals of export_to_file
    begun_after_stop,  \* history: renders made since stop() last set its flag
    fx,                \* an AudioEffects object called directly
    fx_call,           \* the last apply_effects call on fx: arguments and result
    wave,              \* a waveform ring fed directly, and what was fed to it
    fmt,               \* the last format_note_event call: the event and its text
    chunk              \* the chunk loop of an export run on its own

flagVars  == <<running_, paused_, stop_requested_, finished_, stream_running_>>
knobVars  == <<volume_, current_effect_>>
lockVars  == <<state_mutex_, module_mutex_, spectrum_mutex_, waveform_mutex_>>
vizVars   == <<fft_write_pos_, spectrum_bands_, waveform_write_pos_, waveform_buffer_>>
localVars == <<eng, ctl, exp>>
decVars   == <<song, module_>>
devVars   == <<stream_active, playback_thread_>>
\* the objects driven on their own, outside the engine
unitVars  == <<fx, fx_call, wave, fmt, chunk>>
vars == <<pc, decVars, devVars, flagVars, knobVars, lockVars, state_,
          audio_effects_, vizVars, localVars, unitVars, begun_after_stop>>

Threads == {"E", "U", "X"}
Free == "free"

---------------------------------------------------------------------------
(* Bounds and program constants *)

\* number of orders of the loaded song
SongOrders == 2
\* number of channels of the loaded song
NumChannels == 2
\* the volume 1.0, in volume steps (volume_ is 0..VolOne)
VolOne == 2
buffer_size_ == 1024
kSpectrumBands == 20
kFFTSize == 2048
kWaveformSize == 512
PREVIEW_LIMIT == 32

Effects == {"None", "Echo"}
VolumeInputs == (0 - 1) .. (VolOne + 1)
OrderDeltas == {0 - 1, 1, 10}
RowDeltas == {0 - 1, 0, 1}
\* the level a channel's VU meter reports once the song sounds
VuLevels == {1}

Min(a, b) == IF a < b THEN a ELSE b
Max(a, b) == IF a > b THEN a ELSE b
Clamp(x, lo, hi) == IF x < lo THEN lo ELSE IF x > hi THEN hi ELSE x

---------------------------------------------------------------------------
(* The decoder (libopenmpt), as far as the player uses it.  A song is its  *)
(* order list (order -> pattern index, -1 for an invalid entry) and the    *)
(* row count of each pattern.  One rendered buffer plays one row.          *)

\* a song of SongOrders orders, order o playing pattern o; the patterns are
\* one and two rows long in turn
DefaultSong ==
    [order_pattern |-> [o \in 1..SongOrders |-> o - 1],
     pattern_rows  |-> [p \in 1..SongOrders |-> ((p - 1) % 2) + 1],
     bad_cells     |-> {}]

\* the same orders with one row in every pattern
ShortSong ==
    [order_pattern |-> [o \in 1..SongOrders |-> o - 1],
     pattern_rows  |-> [p \in 1..SongOrders |-> 1],
     bad_cells     |-> {}]

\* a song of a single one-row pattern
OneRowSong ==
    [order_pattern |-> <<0>>, pattern_rows |-> <<1>>, bad_cells |-> {}]

get_num_orders == Len(song.order_pattern)

get_order_pattern(o) ==
    IF o >= 0 /\ o < get_num_orders THEN song.order_pattern[o + 1] ELSE 0 - 1

get_pattern_num_rows(p) ==
    IF p >= 0 /\ p < Len(song.pattern_rows) THEN song.pattern_rows[p + 1] ELSE 0

OrderRows(o) == get_pattern_num_rows(get_order_pattern(o))

RECURSIVE RowsBefore(_)
RowsBefore(o) == IF o <= 0 THEN 0 ELSE RowsBefore(o - 1) + OrderRows(o - 1)

TotalRows == RowsBefore(get_num_orders)

\* get_position_seconds, in rows played
get_position_seconds(m) ==
    IF m.ended THEN TotalRows ELSE RowsBefore(m.order) + m.row

\* the (order,row) played at time s
PositionAt(s) ==
    CHOOSE p \in (0..(get_num_orders - 1)) \X (0..TotalRows) :
        /\ p[2] < OrderRows(p[1])
        /\ RowsBefore(p[1]) + p[2] = s

set_position_seconds(m, s) ==
    IF s >= TotalRows
    THEN [m EXCEPT !.ended = TRUE]
    ELSE [m EXCEPT !.order = PositionAt(s)[1], !.row = PositionAt(s)[2],
                   !.ended = FALSE]

set_position_order_row(m, o, r) ==
    [m EXCEPT !.order = o, !.row = r, !.ended = FALSE]

\* the level the decoder reports after a seek: the player's source does not
\* say whether a seek keeps the level or resets it
SeekVuLevels(m) == {m.vu, 0}

\* frames returned by read_interleaved_stereo: 0 at the end of the song
RenderFrames(m, n) == IF m.ended \/ TotalRows = 0 THEN 0 ELSE n

\* the decoder after read_interleaved_stereo, vu the level it then reports
RenderAdvance(m, vu) ==
    IF RenderFrames(m, 1) = 0 THEN m
    ELSE LET s == get_position_seconds(m) + 1
         IN  [set_position_seconds(m, s) EXCEPT !.vu = vu]

\* the outcome of a format_pattern_row_channel that throws
Throws == << >>

\* the text of cell (p,r,ch), named by the cell; for the cells the song lists
\* in bad_cells the call throws
format_pattern_row_channel(p, r, ch) ==
    IF <<p, r, ch>> \in song.bad_cells THEN Throws ELSE <<p, r, ch>>

\* the placeholder text "--- .. .. ..." of lines 580 and 628
Placeholder == <<"---">>

\* the call without its try block: the fault takes the place of the text
FormatOrPlaceholder_NoCatch(p, r, ch) == format_pattern_row_channel(p, r, ch)

\* lines 535-583 and 624-629: the call in its try block, the placeholder in
\* the catch block
FormatOrPlaceholder(p, r, ch) ==
    LET line == format_pattern_row_channel(p, r, ch)
    IN  IF line = Throws THEN Placeholder ELSE line

---------------------------------------------------------------------------
(* update_state_locked: the refresh of the published TransportState.  The  *)
(* caller holds state_mutex_; the refresh takes module_mutex_ and writes   *)
(* the fields in two steps, so that a reader without the lock could see    *)
(* the order of one refresh beside the row of another.                     *)

ChannelStatus(m, p, r, ch) ==
    [line |-> FormatOrPlaceholder(p, r, ch),
     vu_left |-> m.vu, vu_right |-> m.vu]

PreviewRow(o, p, r) ==
    [order |-> o, pattern |-> p, row |-> r,
     channels |-> [ch \in 1..NumChannels |-> FormatOrPlaceholder(p, r, ch - 1)]]

RECURSIVE PreviewFill(_, _, _, _, _)
PreviewFill(o, p, r, rows, remaining) ==
    IF r < rows /\ remaining > 0
    THEN <<PreviewRow(o, p, r)>> \o PreviewFill(o, p, r + 1, rows, remaining - 1)
    ELSE << >>

RECURSIVE PreviewWalk(_, _, _, _)
PreviewWalk(order_index, pattern_index, row_index, remaining) ==
    IF ~(remaining > 0 /\ order_index < get_num_orders) THEN << >>
    ELSE IF pattern_index < 0 \/ get_pattern_num_rows(pattern_index) <= 0
    THEN IF order_index + 1 >= get_num_orders THEN << >>
         ELSE PreviewWalk(order_index + 1, get_order_pattern(order_index + 1), 0,
                          remaining)
    ELSE LET rows == get_pattern_num_rows(pattern_index)
             got  == PreviewFill(order_index, pattern_index, row_index, rows, remaining)
             left == remaining - Len(got)
         IN  IF left <= 0 \/ order_index + 1 >= get_num_orders THEN got
             ELSE got \o PreviewWalk(order_index + 1,
                                     get_order_pattern(order_index + 1), 0, left)

PreviewRows(o, p, r) ==
    IF o >= 0 /\ p >= 0 /\ r >= 0 /\ NumChannels > 0
    THEN PreviewWalk(o, p, r + 1, PREVIEW_LIMIT)
    ELSE << >>

\* lines 512-515: paused, finished and order
RefreshHead(st) ==
    [st EXCEPT !.paused = paused_, !.finished = finished_, !.order = module_.order]

\* lines 516-646: pattern, row, position, the channel list and the preview
RefreshTail(st) ==
    LET p == get_order_pattern(module_.order)
        r == module_.row
    IN  [st EXCEPT !.pattern = p, !.row = r,
                   !.position_seconds = get_position_seconds(module_),
                   !.channels = [ch \in 1..NumChannels |->
                                    ChannelStatus(module_, p, r, ch - 1)],
                   !.preview_rows = PreviewRows(st.order, p, r)]

Goto(t, l) == pc' = [pc EXCEPT ![t] = l]

EngInit ==
    [stop_now |-> FALSE, paused_now |-> FALSE, was_running |-> FALSE,
     need_start |-> FALSE, frames_rendered |-> 0, current_volume |-> 0,
     current_effect |-> "None", buffer |-> 0, err |-> "paNoError"]
CtlInit == [arg |-> 0, snap |-> << >>]
ExpInit ==
    [was_playing |-> FALSE, saved_position |-> 0, total_samples |-> 0,
     samples_rendered |-> 0, audio_buffer |-> << >>, outcome |-> "none"]

\* lines 510-515: with state_mutex_ held by the caller, take module_mutex_
\* and write the head of the refresh
USL_Head(t) ==
    /\ pc[t] = "usl_mlock"
    /\ module_mutex_ = Free
    /\ module_mutex_' = t
    /\ state_' = RefreshHead(state_)
    /\ Goto(t, "usl_tail")
    /\ UNCHANGED <<decVars, devVars, flagVars, knobVars, state_mutex_, spectrum_mutex_,
                   waveform_mutex_, audio_effects_, unitVars, begun_after_stop, vizVars, localVars>>

\* lines 516-647: the rest of the refresh; both locks are released (the
\* caller's state lock at its scope end, lines 285, 387, 501)
USL_Tail(t) ==
    /\ pc[t] = "usl_tail"
    /\ state_' = RefreshTail(state_)
    /\ module_mutex_' = Free
    /\ state_mutex_' = Free
    /\ Goto(t, IF t = "E" THEN "pl_top" ELSE "idle")
    /\ eng' = IF t = "E" THEN EngInit ELSE eng
    /\ ctl' = IF t = "U" THEN CtlInit ELSE ctl
    /\ UNCHANGED <<decVars, devVars, flagVars, knobVars, spectrum_mutex_,
                   waveform_mutex_, audio_effects_, unitVars, begun_after_stop, vizVars, exp>>

---------------------------------------------------------------------------
(* The PortAudio stream.  Starting a started stream and stopping a stopped *)
(* one are refused with paStreamIsNotStopped / paStreamIsStopped; any call *)
(* on the stream may fail with another error.                              *)

Pa_StopResults  == IF stream_active THEN {"paNoError", "error"} ELSE {"paStreamIsStopped"}
Pa_StartResults == IF stream_active THEN {"paStreamIsNotStopped"} ELSE {"paNoError", "error"}
Pa_WriteResults == IF stream_active THEN {"paNoError", "error"} ELSE {"error"}

---------------------------------------------------------------------------
(* Player::playback_loop, lines 394-503 *)

\* lines 397-410: read the flags under the lock, leave on stop, branch on pause
PL_ReadFlags ==
    /\ pc["E"] = "pl_top"
    /\ state_mutex_ = Free
    /\ eng' = [eng EXCEPT !.stop_now = stop_requested_, !.paused_now = paused_]
    /\ Goto("E", IF stop_requested_ THEN "exited"
                 ELSE IF paused_ THEN "pl_pause" ELSE "pl_need")
    /\ UNCHANGED <<decVars, devVars, flagVars, knobVars, lockVars, state_,
                   audio_effects_, unitVars, begun_after_stop, vizVars, ctl, exp>>

\* lines 411-417
PL_ReadWasRunning ==
    /\ pc["E"] = "pl_pause"
    /\ state_mutex_ = Free
    /\ eng' = [eng EXCEPT !.was_running = stream_running_]
    /\ Goto("E", IF stream_running_ THEN "pl_stop_stream" ELSE "pl_wait")
    /\ UNCHANGED <<decVars, devVars, flagVars, knobVars, lockVars, state_,
                   audio_effects_, unitVars, begun_after_stop, vizVars, ctl, exp>>

\* lines 418-422: Pa_StopStream; any error but paStreamIsStopped ends the loop
PL_StopStream ==
    /\ pc["E"] = "pl_stop_stream"
    /\ \E err \in Pa_StopResults :
          /\ stream_active' = IF err = "paNoError" THEN FALSE ELSE stream_active
          /\ Goto("E", IF err = "error" THEN "exited" ELSE "pl_zero")
    /\ UNCHANGED <<decVars, playback_thread_, flagVars, knobVars, lockVars, state_,
                   audio_effects_, unitVars, begun_after_stop, vizVars, localVars>>

\* the device marked stopped with the VU levels left as they are
PL_ZeroVu_KeepLevels ==
    /\ pc["E"] = "pl_zero"
    /\ state_mutex_ = Free
    /\ stream_running_' = FALSE
    /\ Goto("E", "pl_wait")
    /\ UNCHANGED <<decVars, devVars, running_, paused_, stop_requested_, finished_,
                   knobVars, lockVars, state_, audio_effects_, unitVars, begun_after_stop, vizVars, localVars>>

\* lines 423-430
PL_ZeroVu ==
    /\ pc["E"] = "pl_zero"
    /\ state_mutex_ = Free
    /\ stream_running_' = FALSE
    /\ state_' = [state_ EXCEPT !.channels =
                     [ch \in DOMAIN state_.channels |->
                         [state_.channels[ch] EXCEPT !.vu_left = 0, !.vu_right = 0]]]
    /\ Goto("E", "pl_wait")
    /\ UNCHANGED <<decVars, devVars, running_, paused_, stop_requested_, finished_,
                   knobVars, lockVars, audio_effects_, unitVars, begun_after_stop, vizVars, localVars>>

\* the predicate of line 434
WaitPredicate == ~paused_ \/ stop_requested_

\* lines 433-438: pause_cv_.wait(lock, pred), entered or re-entered after a
\* wakeup with the lock taken: the predicate holds and the thread goes on
\* (out of the loop on stop, else continue), or it blocks on pause_cv_
PL_Wait ==
    /\ pc["E"] = "pl_wait"
    /\ state_mutex_ = Free
    /\ Goto("E", IF ~WaitPredicate THEN "pl_blocked"
                 ELSE IF stop_requested_ THEN "exited" ELSE "pl_top")
    /\ eng' = IF WaitPredicate /\ ~stop_requested_ THEN EngInit ELSE eng
    /\ UNCHANGED <<decVars, devVars, flagVars, knobVars, lockVars, state_,
                   audio_effects_, unitVars, begun_after_stop, vizVars, ctl, exp>>

\* a condition variable may wake its waiter with no notification
PL_SpuriousWakeup ==
    /\ pc["E"] = "pl_blocked"
    /\ Goto("E", "pl_wait")
    /\ UNCHANGED <<decVars, devVars, flagVars, knobVars, lockVars, state_,
                   audio_effects_, unitVars, begun_after_stop, vizVars, localVars>>

\* pause_cv_.notify_all(): a thread blocked on pause_cv_ is woken and has to
\* take the lock again; a thread not blocked there is not affected
NotifyAll(p) == IF p["E"] = "pl_blocked" THEN [p EXCEPT !["E"] = "pl_wait"] ELSE p

\* the loop going on to the render whatever stream_running_ is
PL_ReadNeedStart_Always ==
    /\ pc["E"] = "pl_need"
    /\ state_mutex_ = Free
    /\ eng' = [eng EXCEPT !.need_start = ~stream_running_]
    /\ Goto("E", "pl_render")
    /\ UNCHANGED <<decVars, devVars, flagVars, knobVars, lockVars, state_,
                   audio_effects_, unitVars, begun_after_stop, vizVars, ctl, exp>>

\* lines 441-446
PL_ReadNeedStart ==
    /\ pc["E"] = "pl_need"
    /\ state_mutex_ = Free
    /\ eng' = [eng EXCEPT !.need_start = ~stream_running_]
    /\ Goto("E", IF ~stream_running_ THEN "pl_start_stream" ELSE "pl_render")
    /\ UNCHANGED <<decVars, devVars, flagVars, knobVars, lockVars, state_,
                   audio_effects_, unitVars, begun_after_stop, vizVars, ctl, exp>>

\* lines 447-451: Pa_StartStream; any error but paStreamIsNotStopped ends the loop
PL_StartStream ==
    /\ pc["E"] = "pl_start_stream"
    /\ \E err \in Pa_StartResults :
          /\ stream_active' = IF err = "paNoError" THEN TRUE ELSE stream_active
          /\ Goto("E", IF err = "error" THEN "exited" ELSE "pl_started")
    /\ UNCHANGED <<decVars, playback_thread_, flagVars, knobVars, lockVars, state_,
                   audio_effects_, unitVars, begun_after_stop, vizVars, localVars>>

\* lines 452-456: mark the stream running and continue without rendering
PL_Started ==
    /\ pc["E"] = "pl_started"
    /\ state_mutex_ = Free
    /\ stream_running_' = TRUE
    /\ Goto("E", "pl_top")
    /\ eng' = EngInit
    /\ UNCHANGED <<decVars, devVars, running_, paused_, stop_requested_, finished_,
                   knobVars, lockVars, state_, audio_effects_, unitVars, begun_after_stop, vizVars, ctl, exp>>

\* the renders counted after a stop request: one more than the engine can make
MaxBegun == 2
\* the history of line 462: one more render since stop() set its flag, counted
\* up to MaxBegun
RendersAfterStop ==
    IF stop_requested_ THEN Min(MaxBegun, begun_after_stop + 1) ELSE begun_after_stop

\* the render made without the decoder lock
PL_Render_NoLock ==
    /\ pc["E"] = "pl_render"
    /\ LET frames == RenderFrames(module_, buffer_size_)
       IN  /\ \E vu \in VuLevels : module_' = RenderAdvance(module_, vu)
           /\ eng' = [eng EXCEPT !.frames_rendered = frames,
                                 !.buffer = IF frames > 0 THEN VolOne ELSE 0]
           /\ Goto("E", IF frames <= 0 THEN "pl_finish" ELSE "pl_volume")
    /\ begun_after_stop' = RendersAfterStop
    /\ UNCHANGED <<song, devVars, flagVars, knobVars, lockVars, state_,
                   audio_effects_, unitVars, vizVars, ctl, exp>>

\* lines 459-465: one buffer from the decoder, under module_mutex_
PL_Render ==
    /\ pc["E"] = "pl_render"
    /\ module_mutex_ = Free
    /\ LET frames == RenderFrames(module_, buffer_size_)
       IN  /\ \E vu \in VuLevels : module_' = RenderAdvance(module_, vu)
           /\ eng' = [eng EXCEPT !.frames_rendered = frames,
                                 !.buffer = IF frames > 0 THEN VolOne ELSE 0]
           /\ Goto("E", IF frames <= 0 THEN "pl_finish" ELSE "pl_volume")
    /\ begun_after_stop' = RendersAfterStop
    /\ UNCHANGED <<song, devVars, flagVars, knobVars, lockVars, state_,
                   audio_effects_, unitVars, vizVars, ctl, exp>>

\* the end of the song recorded in the flag only
PL_Finish_FlagOnly ==
    /\ pc["E"] = "pl_finish"
    /\ state_mutex_ = Free
    /\ finished_' = TRUE
    /\ Goto("E", "exited")
    /\ UNCHANGED <<decVars, devVars, running_, paused_, stop_requested_, stream_running_,
                   knobVars, lockVars, state_, audio_effects_, unitVars, begun_after_stop, vizVars, localVars>>

\* lines 465-470: the song is over; the buffer is not written
PL_Finish ==
    /\ pc["E"] = "pl_finish"
    /\ state_mutex_ = Free
    /\ finished_' = TRUE
    /\ state_' = [state_ EXCEPT !.finished = TRUE]
    /\ Goto("E", "exited")
    /\ UNCHANGED <<decVars, devVars, running_, paused_, stop_requested_, stream_running_,
                   knobVars, lockVars, audio_effects_, unitVars, begun_after_stop, vizVars, localVars>>

\* lines 479-483: every sample times the volume, skipped at exactly 1.0
ScaleVolume(level, v) == IF v # VolOne THEN (level * v) \div VolOne ELSE level

\* lines 472-483: copy volume and effect under the lock, then scale
PL_ReadVolume ==
    /\ pc["E"] = "pl_volume"
    /\ state_mutex_ = Free
    /\ eng' = [eng EXCEPT !.current_volume = volume_,
                          !.current_effect = current_effect_,
                          !.buffer = ScaleVolume(eng.buffer, volume_)]
    /\ Goto("E", IF current_effect_ # "None" THEN "pl_effects" ELSE "pl_spectrum")
    /\ UNCHANGED <<decVars, devVars, flagVars, knobVars, lockVars, state_,
                   audio_effects_, unitVars, begun_after_stop, vizVars, ctl, exp>>

\* AudioEffects::apply_effects: only the selected effect's state advances
apply_effects(used, effect) == IF effect = "None" THEN used ELSE used \cup {effect}

\* the level of the buffer after apply_effects: every sample an effect
\* writes is clamped to [-1, 1], None writes none
EffectLevels(level, effect) == IF effect = "None" THEN {level} ELSE 0..VolOne

\* lines 485-487
PL_ApplyEffects ==
    /\ pc["E"] = "pl_effects"
    /\ audio_effects_' = apply_effects(audio_effects_, eng.current_effect)
    /\ \E level \in EffectLevels(eng.buffer, eng.current_effect) :
          eng' = [eng EXCEPT !.buffer = level]
    /\ Goto("E", "pl_spectrum")
    /\ UNCHANGED <<decVars, devVars, flagVars, knobVars, lockVars, state_, vizVars, unitVars, begun_after_stop,
                   ctl, exp>>

\* a call that takes every buffer for a whole window
SpectrumFill_Whole(pos, frames) == kFFTSize

\* lines 652-657: frames taken into the analysis window
SpectrumFill(pos, frames) == Min(kFFTSize, pos + frames)

\* lines 489 and 649-715: update_spectrum under spectrum_mutex_; a call that
\* does not complete the window returns, one that does resets the cursor,
\* computes the bands and goes on to publish them
PL_Spectrum ==
    /\ pc["E"] = "pl_spectrum"
    /\ spectrum_mutex_ = Free
    /\ LET pos == SpectrumFill(fft_write_pos_, eng.frames_rendered)
       IN  IF pos < kFFTSize
           THEN /\ fft_write_pos_' = pos
                /\ Goto("E", "pl_waveform")
                /\ UNCHANGED <<spectrum_bands_, spectrum_mutex_>>
           ELSE /\ fft_write_pos_' = 0
                /\ spectrum_bands_' = [size |-> kSpectrumBands, level |-> 1]
                /\ spectrum_mutex_' = "E"
                /\ Goto("E", "pl_spectrum_publish")
    /\ UNCHANGED <<decVars, devVars, flagVars, knobVars, state_mutex_, module_mutex_,
                   waveform_mutex_, state_, audio_effects_, unitVars, begun_after_stop, waveform_write_pos_,
                   waveform_buffer_, localVars>>

\* lines 717-721: publish under state_mutex_, spectrum_mutex_ still held
PL_PublishSpectrum ==
    /\ pc["E"] = "pl_spectrum_publish"
    /\ state_mutex_ = Free
    /\ state_' = [state_ EXCEPT !.spectrum_bands = spectrum_bands_]
    /\ spectrum_mutex_' = Free
    /\ Goto("E", "pl_waveform")
    /\ UNCHANGED <<decVars, devVars, flagVars, knobVars, state_mutex_, module_mutex_,
                   waveform_mutex_, audio_effects_, unitVars, begun_after_stop, vizVars, localVars>>

\* line 726
Decimation(sample_count) == Max(1, sample_count \div (kWaveformSize * 4))

\* lines 728-740: the cursor after the fill pass over sample_count samples
WaveformFill(pos, sample_count) ==
    LET step  == Decimation(sample_count) * 2
        pairs == (sample_count + step - 1) \div step
        from  == IF pos >= kWaveformSize THEN 0 ELSE pos
    IN  IF pairs = 0 THEN pos ELSE from + Min(pairs, kWaveformSize - from)

\* lines 490 and 723-740: update_waveform under waveform_mutex_
PL_Waveform ==
    /\ pc["E"] = "pl_waveform"
    /\ waveform_mutex_ = Free
    /\ waveform_mutex_' = "E"
    /\ waveform_write_pos_' = WaveformFill(waveform_write_pos_, eng.frames_rendered * 2)
    /\ waveform_buffer_' = [size |-> kWaveformSize, level |-> 1]
    /\ Goto("E", "pl_waveform_publish")
    /\ UNCHANGED <<decVars, devVars, flagVars, knobVars, state_mutex_, module_mutex_,
                   spectrum_mutex_, state_, audio_effects_, unitVars, begun_after_stop, fft_write_pos_,
                   spectrum_bands_, localVars>>

\* lines 742-747: publish under state_mutex_, waveform_mutex_ still held
PL_PublishWaveform ==
    /\ pc["E"] = "pl_waveform_publish"
    /\ state_mutex_ = Free
    /\ state_' = [state_ EXCEPT !.waveform_left = waveform_buffer_,
                                !.waveform_right = waveform_buffer_]
    /\ waveform_mutex_' = Free
    /\ Goto("E", "pl_write")
    /\ UNCHANGED <<decVars, devVars, flagVars, knobVars, state_mutex_, module_mutex_,
                   spectrum_mutex_, audio_effects_, unitVars, begun_after_stop, vizVars, localVars>>

\* the write given up, without a call on the device, once a stop or a pause
\* has been requested
PL_WriteStream_CheckFlags ==
    /\ pc["E"] = "pl_write"
    /\ \E err \in Pa_WriteResults :
          /\ eng' = [eng EXCEPT !.err = IF stop_requested_ \/ paused_
                                        THEN "paNoError" ELSE err]
          /\ Goto("E", IF stop_requested_ \/ paused_ THEN "exited"
                       ELSE IF err = "paNoError" THEN "pl_refresh" ELSE "exited")
    /\ UNCHANGED <<decVars, devVars, flagVars, knobVars, lockVars, state_,
                   audio_effects_, unitVars, begun_after_stop, vizVars, ctl, exp>>

\* lines 492-496: the blocking Pa_WriteStream; an error ends the loop
PL_WriteStream ==
    /\ pc["E"] = "pl_write"
    /\ \E err \in Pa_WriteResults :
          /\ eng' = [eng EXCEPT !.err = err]
          /\ Goto("E", IF err = "paNoError" THEN "pl_refresh" ELSE "exited")
    /\ UNCHANGED <<decVars, devVars, flagVars, knobVars, lockVars, state_,
                   audio_effects_, unitVars, begun_after_stop, vizVars, ctl, exp>>

\* line 499: the state lock of the refresh
PL_LockRefresh ==
    /\ pc["E"] = "pl_refresh"
    /\ state_mutex_ = Free
    /\ state_mutex_' = "E"
    /\ Goto("E", "usl_mlock")
    /\ UNCHANGED <<decVars, devVars, flagVars, knobVars, module_mutex_, spectrum_mutex_,
                   waveform_mutex_, state_, audio_effects_, unitVars, begun_after_stop, vizVars, localVars>>

---------------------------------------------------------------------------
(* Player::start and Player::stop, lines 209-239 *)

U_StartCall ==
    /\ pc["U"] = "idle"
    /\ Goto("U", "st_check")
    /\ UNCHANGED <<decVars, devVars, flagVars, knobVars, lockVars, state_,
                   audio_effects_, unitVars, begun_after_stop, vizVars, localVars>>

\* start() without its early return
U_StartCheck_Always ==
    /\ pc["U"] = "st_check"
    /\ Goto("U", "st_stream")
    /\ UNCHANGED <<decVars, devVars, flagVars, knobVars, lockVars, state_,
                   audio_effects_, unitVars, begun_after_stop, vizVars, localVars>>

\* lines 210-212
U_StartCheck ==
    /\ pc["U"] = "st_check"
    /\ Goto("U", IF running_ THEN "idle" ELSE "st_stream")
    /\ UNCHANGED <<decVars, devVars, flagVars, knobVars, lockVars, state_,
                   audio_effects_, unitVars, begun_after_stop, vizVars, localVars>>

\* lines 213-216: Pa_StartStream; any error is thrown to the caller
U_StartStream ==
    /\ pc["U"] = "st_stream"
    /\ \E err \in Pa_StartResults :
          /\ stream_active' = IF err = "paNoError" THEN TRUE ELSE stream_active
          /\ Goto("U", IF err = "paNoError" THEN "st_spawn" ELSE "idle")
    /\ UNCHANGED <<decVars, playback_thread_, flagVars, knobVars, lockVars, state_,
                   audio_effects_, unitVars, begun_after_stop, vizVars, localVars>>

\* lines 217-220: the flags, written without the state lock, and the thread
U_StartSpawn ==
    /\ pc["U"] = "st_spawn"
    /\ running_' = TRUE
    /\ stream_running_' = TRUE
    /\ stop_requested_' = FALSE
    /\ playback_thread_' = playback_thread_ + 1
    /\ pc' = [pc EXCEPT !["U"] = "idle", !["E"] = "pl_top"]
    /\ eng' = EngInit
    /\ begun_after_stop' = 0
    /\ UNCHANGED <<decVars, stream_active, paused_, finished_, knobVars, lockVars,
                   state_, audio_effects_, unitVars, vizVars, ctl, exp>>

U_StopCall ==
    /\ pc["U"] = "idle"
    /\ Goto("U", "sp_check")
    /\ UNCHANGED <<decVars, devVars, flagVars, knobVars, lockVars, state_,
                   audio_effects_, unitVars, begun_after_stop, vizVars, localVars>>

\* stop() without its early return
U_StopCheck_Always ==
    /\ pc["U"] = "sp_check"
    /\ Goto("U", "sp_lock")
    /\ UNCHANGED <<decVars, devVars, flagVars, knobVars, lockVars, state_,
                   audio_effects_, unitVars, begun_after_stop, vizVars, localVars>>

\* lines 224-226
U_StopCheck ==
    /\ pc["U"] = "sp_check"
    /\ Goto("U", IF ~running_ THEN "idle" ELSE "sp_lock")
    /\ UNCHANGED <<decVars, devVars, flagVars, knobVars, lockVars, state_,
                   audio_effects_, unitVars, begun_after_stop, vizVars, localVars>>

\* lines 227-231
U_StopFlags ==
    /\ pc["U"] = "sp_lock"
    /\ state_mutex_ = Free
    /\ stop_requested_' = TRUE
    /\ paused_' = FALSE
    /\ begun_after_stop' = 0
    /\ Goto("U", "sp_notify")
    /\ UNCHANGED <<decVars, devVars, running_, finished_, stream_running_, knobVars,
                   lockVars, state_, audio_effects_, unitVars, vizVars, localVars>>

\* stop() going on to the join with no notification sent
U_StopNotify_NoWake ==
    /\ pc["U"] = "sp_notify"
    /\ Goto("U", "sp_join")
    /\ UNCHANGED <<decVars, devVars, flagVars, knobVars, lockVars, state_,
                   audio_effects_, unitVars, begun_after_stop, vizVars, localVars>>

\* line 232
U_StopNotify ==
    /\ pc["U"] = "sp_notify"
    /\ pc' = [NotifyAll(pc) EXCEPT !["U"] = "sp_join"]
    /\ UNCHANGED <<decVars, devVars, flagVars, knobVars, lockVars, state_,
                   audio_effects_, unitVars, begun_after_stop, vizVars, localVars>>

\* lines 233-235: join returns once the thread has left playback_loop
U_StopJoin ==
    /\ pc["U"] = "sp_join"
    /\ IF playback_thread_ > 0
       THEN /\ pc["E"] = "exited"
            /\ pc' = [pc EXCEPT !["U"] = "sp_stream", !["E"] = "none"]
            /\ playback_thread_' = playback_thread_ - 1
       ELSE /\ Goto("U", "sp_stream")
            /\ UNCHANGED playback_thread_
    /\ UNCHANGED <<decVars, stream_active, flagVars, knobVars, lockVars, state_,
                   audio_effects_, unitVars, begun_after_stop, vizVars, localVars>>

\* lines 236-238: Pa_StopStream, its result ignored, and the flags, written
\* without the state lock
U_StopStream ==
    /\ pc["U"] = "sp_stream"
    /\ \E err \in Pa_StopResults :
          stream_active' = IF err = "paNoError" THEN FALSE ELSE stream_active
    /\ stream_running_' = FALSE
    /\ running_' = FALSE
    /\ Goto("U", "idle")
    /\ UNCHANGED <<decVars, playback_thread_, paused_, stop_requested_, finished_,
                   knobVars, lockVars, state_, audio_effects_, unitVars, begun_after_stop, vizVars, localVars>>

---------------------------------------------------------------------------
(* toggle_pause, set_volume, set_effect, snapshot: lines 241-268, 389-392 *)

\* lines 242-246
U_ToggleFlip ==
    /\ pc["U"] = "idle"
    /\ state_mutex_ = Free
    /\ paused_' = ~paused_
    /\ state_' = [state_ EXCEPT !.paused = ~paused_]
    /\ Goto("U", "tp_notify")
    /\ UNCHANGED <<decVars, devVars, running_, stop_requested_, finished_,
                   stream_running_, knobVars, lockVars, audio_effects_, unitVars, begun_after_stop, vizVars,
                   localVars>>

\* toggle_pause returning with no notification sent
U_ToggleNotify_NoWake ==
    /\ pc["U"] = "tp_notify"
    /\ Goto("U", "idle")
    /\ UNCHANGED <<decVars, devVars, flagVars, knobVars, lockVars, state_,
                   audio_effects_, unitVars, begun_after_stop, vizVars, localVars>>

\* line 247
U_ToggleNotify ==
    /\ pc["U"] = "tp_notify"
    /\ pc' = [NotifyAll(pc) EXCEPT !["U"] = "idle"]
    /\ UNCHANGED <<decVars, devVars, flagVars, knobVars, lockVars, state_,
                   audio_effects_, unitVars, begun_after_stop, vizVars, localVars>>

\* the volume stored as it comes
set_volume_NoClamp(volume) ==
    /\ pc["U"] = "idle"
    /\ state_mutex_ = Free
    /\ volume_' = volume
    /\ UNCHANGED <<pc, decVars, devVars, flagVars, current_effect_, lockVars, state_,
                   audio_effects_, unitVars, begun_after_stop, vizVars, localVars>>

\* lines 250-253, called with any volume
set_volume(volume) ==
    /\ pc["U"] = "idle"
    /\ state_mutex_ = Free
    /\ volume_' = Clamp(volume, 0, VolOne)
    /\ UNCHANGED <<pc, decVars, devVars, flagVars, current_effect_, lockVars, state_,
                   audio_effects_, unitVars, begun_after_stop, vizVars, localVars>>

U_SetVolume == \E volume \in VolumeInputs : set_volume(volume)

\* lines 260-263, called with any effect
set_effect(effect) ==
    /\ pc["U"] = "idle"
    /\ state_mutex_ = Free
    /\ current_effect_' = effect
    /\ UNCHANGED <<pc, decVars, devVars, flagVars, volume_, lockVars, state_,
                   audio_effects_, unitVars, begun_after_stop, vizVars, localVars>>

U_SetEffect == \E effect \in Effects : set_effect(effect)

\* the copy taken without the state lock
U_SnapshotCopy_NoLock ==
    /\ pc["U"] = "idle"
    /\ ctl' = [ctl EXCEPT !.snap = state_]
    /\ Goto("U", "sn_return")
    /\ UNCHANGED <<decVars, devVars, flagVars, knobVars, lockVars, state_,
                   audio_effects_, unitVars, begun_after_stop, vizVars, eng, exp>>

\* lines 389-392: the copy is the caller's
U_SnapshotCopy ==
    /\ pc["U"] = "idle"
    /\ state_mutex_ = Free
    /\ ctl' = [ctl EXCEPT !.snap = state_]
    /\ Goto("U", "sn_return")
    /\ UNCHANGED <<decVars, devVars, flagVars, knobVars, lockVars, state_,
                   audio_effects_, unitVars, begun_after_stop, vizVars, eng, exp>>

\* the caller has used the copy
U_SnapshotReturn ==
    /\ pc["U"] = "sn_return"
    /\ ctl' = CtlInit
    /\ Goto("U", "idle")
    /\ UNCHANGED <<decVars, devVars, flagVars, knobVars, lockVars, state_,
                   audio_effects_, unitVars, begun_after_stop, vizVars, eng, exp>>

---------------------------------------------------------------------------
(* jump_to_order and jump_rows, lines 270-387 *)

\* the values of an int, at a width of IntBits bits
IntBits == 8
IntMax == 2 ^ (IntBits - 1) - 1
IntMin == 0 - 2 ^ (IntBits - 1)

\* line 277, for a sum that fits an int
JumpOrderTarget(current_order, delta) ==
    Clamp(current_order + delta, 0, get_num_orders - 1)

\* line 277: the targets the build can produce.  current_order + delta is
\* added as int; a sum outside the int range is undefined, and whatever it
\* yields is then clamped
JumpOrderTargets(current_order, delta) ==
    IF current_order + delta \in IntMin..IntMax
    THEN {JumpOrderTarget(current_order, delta)}
    ELSE 0..(get_num_orders - 1)

\* the seek with module_mutex_ still held when the call goes on to take
\* state_mutex_
jump_to_order_HoldDecoder(delta) ==
    /\ pc["U"] = "idle"
    /\ module_mutex_ = Free
    /\ module_mutex_' = "U"
    /\ \E target \in JumpOrderTargets(module_.order, delta) :
       \E vu \in SeekVuLevels(module_) :
          module_' = [set_position_order_row(module_, target, 0) EXCEPT !.vu = vu]
    /\ ctl' = [ctl EXCEPT !.arg = delta]
    /\ Goto("U", "jump_lock")
    /\ UNCHANGED <<song, devVars, flagVars, knobVars, state_mutex_, spectrum_mutex_,
                   waveform_mutex_, state_, audio_effects_, unitVars, begun_after_stop,
                   vizVars, eng, exp>>

\* lines 271-279: the seek, under module_mutex_
jump_to_order(delta) ==
    /\ pc["U"] = "idle"
    /\ module_mutex_ = Free
    /\ \E target \in JumpOrderTargets(module_.order, delta) :
       \E vu \in SeekVuLevels(module_) :
          module_' = [set_position_order_row(module_, target, 0) EXCEPT !.vu = vu]
    /\ ctl' = [ctl EXCEPT !.arg = delta]
    /\ Goto("U", "jump_lock")
    /\ UNCHANGED <<song, devVars, flagVars, knobVars, lockVars, state_,
                   audio_effects_, unitVars, begun_after_stop, vizVars, eng, exp>>

U_JumpOrderSeek == \E delta \in OrderDeltas : jump_to_order(delta)

\* the loop with the crossing into the next order costing no row
RECURSIVE ForwardWalk_FreeCrossing(_, _, _)
ForwardWalk_FreeCrossing(ord, row, remaining) ==
    IF remaining > 0 /\ ord < get_num_orders
    THEN IF get_order_pattern(ord) < 0 \/ OrderRows(ord) <= 0
         THEN ForwardWalk_FreeCrossing(ord + 1, 0, remaining)
         ELSE LET rows_left == OrderRows(ord) - row - 1
              IN  IF remaining <= rows_left
                  THEN <<ord, row + remaining>>
                  ELSE ForwardWalk_FreeCrossing(ord + 1, 0, remaining - rows_left)
    ELSE <<ord, row>>

\* lines 309-340
RECURSIVE ForwardWalk(_, _, _)
ForwardWalk(ord, row, remaining) ==
    IF remaining > 0 /\ ord < get_num_orders
    THEN IF get_order_pattern(ord) < 0 \/ OrderRows(ord) <= 0
         THEN ForwardWalk(ord + 1, 0, remaining)
         ELSE LET rows_left == OrderRows(ord) - row - 1
              IN  IF remaining <= rows_left
                  THEN <<ord, row + remaining>>
                  ELSE ForwardWalk(ord + 1, 0, remaining - (rows_left + 1))
    ELSE <<ord, row>>

\* the walk without the clamp of lines 333-338
advance_forward_NoClamp(ord, row, remaining) == ForwardWalk(ord, row, remaining)

advance_forward(ord, row, remaining) ==
    LET at == ForwardWalk(ord, row, remaining)
    IN  IF at[1] >= get_num_orders
        THEN <<get_num_orders - 1, Max(0, OrderRows(get_num_orders - 1) - 1)>>
        ELSE at

\* the backward walk with an order without rows costing one row of the budget
RECURSIVE advance_backward_SkipCosts(_, _, _)
advance_backward_SkipCosts(ord, row, remaining) ==
    IF remaining > 0 /\ ord >= 0
    THEN LET step == IF row > 0 THEN Min(row, remaining) ELSE 0
             r1   == row - step
             n1   == remaining - step
         IN  IF row > 0 /\ n1 = 0 THEN <<ord, r1>>
             ELSE IF ord - 1 < 0 THEN <<0, 0>>
             ELSE advance_backward_SkipCosts(ord - 1, Max(0, OrderRows(ord - 1) - 1),
                                             n1 - 1)
    ELSE <<ord, row>>

\* the backward walk without the floor of lines 353-357
RECURSIVE advance_backward_NoFloor(_, _, _)
advance_backward_NoFloor(ord, row, remaining) ==
    IF remaining > 0 /\ ord >= 0
    THEN LET step == IF row > 0 THEN Min(row, remaining) ELSE 0
             r1   == row - step
             n1   == remaining - step
         IN  IF row > 0 /\ n1 = 0 THEN <<ord, r1>>
             ELSE IF ord - 1 < 0 THEN <<ord - 1, r1>>
             ELSE IF OrderRows(ord - 1) <= 0
                  THEN advance_backward_NoFloor(ord - 1, 0, n1)
                  ELSE advance_backward_NoFloor(ord - 1, OrderRows(ord - 1) - 1, n1 - 1)
    ELSE <<ord, row>>

\* lines 342-368
RECURSIVE advance_backward(_, _, _)
advance_backward(ord, row, remaining) ==
    IF remaining > 0 /\ ord >= 0
    THEN LET step == IF row > 0 THEN Min(row, remaining) ELSE 0
             r1   == row - step
             n1   == remaining - step
         IN  IF row > 0 /\ n1 = 0 THEN <<ord, r1>>
             ELSE IF ord - 1 < 0 THEN <<0, 0>>
             ELSE IF OrderRows(ord - 1) <= 0
                  THEN advance_backward(ord - 1, 0, n1)
                  ELSE advance_backward(ord - 1, OrderRows(ord - 1) - 1, n1 - 1)
    ELSE <<ord, row>>

\* lines 370-378
JumpRowsTarget(m, delta_rows) ==
    IF delta_rows > 0
    THEN advance_forward(m.order, m.row, delta_rows)
    ELSE advance_backward(m.order, m.row, 0 - delta_rows)

\* line 375: -delta_rows as int; the negative of INT_MIN does not fit an int,
\* which is undefined, and whatever it yields is the budget of the walk
Negate(delta_rows) ==
    IF delta_rows = IntMin THEN IntMin..IntMax ELSE {0 - delta_rows}

\* lines 370-378: the targets the build can produce
JumpRowsTargets(m, delta_rows) ==
    IF delta_rows > 0
    THEN {advance_forward(m.order, m.row, delta_rows)}
    ELSE {advance_backward(m.order, m.row, remaining) : remaining \in Negate(delta_rows)}

\* line 287: jump_rows called
jump_rows(delta_rows) ==
    /\ pc["U"] = "idle"
    /\ ctl' = [ctl EXCEPT !.arg = delta_rows]
    /\ Goto("U", "jr_check")
    /\ UNCHANGED <<decVars, devVars, flagVars, knobVars, lockVars, state_,
                   audio_effects_, unitVars, begun_after_stop, vizVars, eng, exp>>

U_JumpRowsCall == \E d \in RowDeltas : jump_rows(d)

\* jump_rows(0) going on to the clearing of finished and the refresh
U_JumpRowsZero_Refresh ==
    /\ pc["U"] = "jr_check"
    /\ ctl.arg = 0
    /\ ctl' = CtlInit
    /\ Goto("U", "jump_lock")
    /\ UNCHANGED <<decVars, devVars, flagVars, knobVars, lockVars, state_,
                   audio_effects_, unitVars, begun_after_stop, vizVars, eng, exp>>

\* lines 288-290
U_JumpRowsZero ==
    /\ pc["U"] = "jr_check"
    /\ ctl.arg = 0
    /\ ctl' = CtlInit
    /\ Goto("U", "idle")
    /\ UNCHANGED <<decVars, devVars, flagVars, knobVars, lockVars, state_,
                   audio_effects_, unitVars, begun_after_stop, vizVars, eng, exp>>

\* lines 295-381: the seek, under module_mutex_
U_JumpRowsSeek ==
    /\ pc["U"] = "jr_check"
    /\ ctl.arg # 0
    /\ module_mutex_ = Free
    /\ IF get_num_orders <= 0
       THEN /\ Goto("U", "idle")
            /\ UNCHANGED module_
       ELSE /\ \E target \in JumpRowsTargets(module_, ctl.arg) :
               \E vu \in SeekVuLevels(module_) :
                  module_' = [set_position_order_row(module_, target[1], target[2])
                                 EXCEPT !.vu = vu]
            /\ Goto("U", "jump_lock")
    /\ ctl' = CtlInit
    /\ UNCHANGED <<song, devVars, flagVars, knobVars, lockVars, state_,
                   audio_effects_, unitVars, begun_after_stop, vizVars, eng, exp>>

\* the state lock taken for the refresh with finished left as it is
U_JumpClear_KeepFinished ==
    /\ pc["U"] = "jump_lock"
    /\ state_mutex_ = Free
    /\ state_mutex_' = "U"
    /\ ctl' = CtlInit
    /\ Goto("U", "usl_mlock")
    /\ UNCHANGED <<decVars, devVars, flagVars, knobVars, module_mutex_, spectrum_mutex_,
                   waveform_mutex_, state_, audio_effects_, unitVars, begun_after_stop, vizVars, eng, exp>>

\* lines 281-283 and 383-385: take the state lock and clear finished; the
\* refresh of lines 284 and 386 follows with the lock held
U_JumpClear ==
    /\ pc["U"] = "jump_lock"
    /\ state_mutex_ = Free
    /\ state_mutex_' = "U"
    /\ finished_' = FALSE
    /\ state_' = [state_ EXCEPT !.finished = FALSE]
    /\ ctl' = CtlInit
    /\ Goto("U", "usl_mlock")
    /\ UNCHANGED <<decVars, devVars, running_, paused_, stop_requested_, stream_running_,
                   knobVars, module_mutex_, spectrum_mutex_, waveform_mutex_,
                   audio_effects_, unitVars, begun_after_stop, vizVars, eng, exp>>

---------------------------------------------------------------------------
(* export_to_file, lines 749-848.  Sample counts are in rows: the song is  *)
(* TotalRows long and one render yields one row.                           *)

\* lines 752-758: pause the engine if it is playing
X_ExportPause ==
    /\ pc["X"] = "idle"
    /\ state_mutex_ = Free
    /\ exp' = [ExpInit EXCEPT !.was_playing = running_ /\ ~paused_]
    /\ paused_' = IF running_ /\ ~paused_ THEN TRUE ELSE paused_
    /\ Goto("X", "ex_save")
    /\ UNCHANGED <<decVars, devVars, running_, stop_requested_, finished_,
                   stream_running_, knobVars, lockVars, state_, audio_effects_, unitVars, begun_after_stop,
                   vizVars, eng, ctl>>

\* lines 764-779: save the position, rewind to time 0, enter the loop
X_Save ==
    /\ pc["X"] = "ex_save"
    /\ module_mutex_ = Free
    /\ exp' = [exp EXCEPT !.saved_position = get_position_seconds(module_),
                          !.total_samples = TotalRows]
    /\ \E vu \in SeekVuLevels(module_) :
          module_' = [set_position_seconds(module_, 0) EXCEPT !.vu = vu]
    /\ Goto("X", IF 0 < TotalRows THEN "ex_read" ELSE "ex_encode")
    /\ UNCHANGED <<song, devVars, flagVars, knobVars, lockVars, state_,
                   audio_effects_, unitVars, begun_after_stop, vizVars, eng, ctl>>

\* lines 784-795: one chunk from the decoder; no frames ends the loop.  The
\* chunk is named by the time it was rendered at.
X_Read ==
    /\ pc["X"] = "ex_read"
    /\ module_mutex_ = Free
    /\ LET frames == RenderFrames(module_, 1)
       IN  /\ \E vu \in VuLevels : module_' = RenderAdvance(module_, vu)
           /\ exp' = IF frames = 0 THEN exp
                     ELSE [exp EXCEPT !.audio_buffer =
                              Append(exp.audio_buffer, get_position_seconds(module_))]
           /\ Goto("X", IF frames = 0 THEN "ex_encode" ELSE "ex_process")
    /\ UNCHANGED <<song, devVars, flagVars, knobVars, lockVars, state_,
                   audio_effects_, unitVars, begun_after_stop, vizVars, eng, ctl>>

\* lines 797-826: volume_ and current_effect_ are read without the state
\* lock; the chunk is scaled, run through the effect and counted; the
\* progress callback answers go on or cancel
X_Process ==
    /\ pc["X"] = "ex_process"
    /\ audio_effects_' = apply_effects(audio_effects_, current_effect_)
    /\ \E go \in BOOLEAN :
          LET rendered == exp.samples_rendered + 1
          IN  /\ exp' = [exp EXCEPT !.samples_rendered = rendered,
                                    !.outcome = IF go THEN "none" ELSE "cancelled"]
              /\ Goto("X", IF ~go THEN "ex_restore"
                           ELSE IF rendered < exp.total_samples THEN "ex_read"
                           ELSE "ex_encode")
    /\ UNCHANGED <<decVars, devVars, flagVars, knobVars, lockVars, state_, vizVars, unitVars, begun_after_stop,
                   eng, ctl>>

\* AudioExporter::is_format_supported, audio_exporter.cpp lines 17-35: WAV
\* always, MP3 and FLAC when the build has the library
ExportFormats == {"WAV", "MP3"}
is_format_supported(format) == format = "WAV"

\* AudioExporter::export_audio, audio_exporter.cpp lines 77-106: the results
\* it can return for the accumulated buffer and the chosen format
export_audio(audio_data, format) ==
    IF audio_data = <<>> THEN {"failed"}
    ELSE IF ~is_format_supported(format) THEN {"unsupported"}
    ELSE {"ok", "failed"}

\* lines 829-830 and 844-847: the encoder is handed the buffer and the format
\* of the options and succeeds, fails or rejects the format; or an exception
\* is caught, and the catch block returns with nothing restored
X_Encode ==
    /\ pc["X"] = "ex_encode"
    /\ \E format \in ExportFormats :
       \E result \in export_audio(exp.audio_buffer, format) \cup {"threw"} :
          /\ exp' = IF result = "threw" THEN ExpInit
                    ELSE [exp EXCEPT !.outcome = result]
          /\ Goto("X", IF result = "threw" THEN "idle" ELSE "ex_restore")
    /\ UNCHANGED <<decVars, devVars, flagVars, knobVars, lockVars, state_,
                   audio_effects_, unitVars, begun_after_stop, vizVars, eng, ctl>>

\* lines 815-819 and 832-836
X_Restore ==
    /\ pc["X"] = "ex_restore"
    /\ module_mutex_ = Free
    /\ \E vu \in SeekVuLevels(module_) :
          module_' = [set_position_seconds(module_, exp.saved_position) EXCEPT !.vu = vu]
    /\ Goto("X", IF exp.was_playing THEN "ex_resume" ELSE "idle")
    /\ exp' = IF exp.was_playing THEN exp ELSE ExpInit
    /\ UNCHANGED <<song, devVars, flagVars, knobVars, lockVars, state_,
                   audio_effects_, unitVars, begun_after_stop, vizVars, eng, ctl>>

\* lines 820-824 and 837-841
X_Resume ==
    /\ pc["X"] = "ex_resume"
    /\ state_mutex_ = Free
    /\ paused_' = FALSE
    /\ pc' = [NotifyAll(pc) EXCEPT !["X"] = "idle"]
    /\ exp' = ExpInit
    /\ UNCHANGED <<decVars, devVars, running_, stop_requested_, finished_,
                   stream_running_, knobVars, lockVars, state_, audio_effects_, unitVars, begun_after_stop,
                   vizVars, eng, ctl>>

---------------------------------------------------------------------------
(* AudioEffects, src/src/audio_effects.cpp.  A sample is an integer, Unit  *)
(* being the sample 1.0; a product with a constant factor is taken in      *)
(* hundredths and truncated.  An LFO phase is counted in steps of which    *)
(* 10 * sample_rate make a full cycle, so that a frequency of f Hz advances *)
(* it by 10 * f steps a frame; the sine is its triangle approximation.     *)
(* The rings are shorter than the program's, in the same order of sizes.   *)

\* the sample 1.0
Unit == 10
\* ring lengths, in frames
RingScale == 1
kFlangerBufferSize == RingScale + 1
kChorusBufferSize == RingScale + 2
kEchoBufferSize == RingScale + 2
kReverbBufferSize == RingScale + 3
\* calls made on one AudioEffects object
MaxCalls == 3

AudioEffect == {"None", "BassBoost", "Echo", "Reverb", "Flanger", "Phaser", "Chorus"}
SampleRates == {4, 100, 1000}
FrameCounts == {0, 1, 3}
\* a stereo frame; the buffer of a call repeats one frame
InputFrames == {<<2 * Unit, 0 - 2 * Unit>>, <<Unit, Unit>>, <<1, 0>>}

\* x * p / 100, truncated as a conversion of a float to an integer is
Pct(x, p) == IF x >= 0 THEN (x * p) \div 100 ELSE 0 - (((0 - x) * p) \div 100)

\* static_cast<std::size_t>(m / 1000 * sample_rate)
Permille(sample_rate, m) == (sample_rate * m) \div 1000

\* std::size_t arithmetic: unsigned, IntBits wide
SizeMod == 2 ^ IntBits
UAdd(a, b) == (a + b) % SizeMod
USub(a, b) == (a - b) % SizeMod

\* the sample left as it is
ClampSample_None(v) == v

\* std::clamp(v, -1.0f, 1.0f)
ClampSample(v) == Clamp(v, 0 - Unit, Unit)

\* the cursor moved on without wrapping
RingNext_NoWrap(pos, capacity) == pos + 1

\* lines 92, 128, 164 and 248: pos = (pos + 1) % capacity
RingNext(pos, capacity) == UAdd(pos, 1) % capacity

\* a ring element; an index outside the ring reads whatever lies there
RingAt(ring, i) == IF i \in DOMAIN ring THEN ring[i] ELSE 0

\* 100 * sin(phase), phase in steps of which cycle make 2 pi
SinPct(phase, cycle) ==
    LET t == (400 * phase) \div cycle
    IN  IF t < 100 THEN t ELSE IF t < 300 THEN 200 - t ELSE t - 400

LfoCycle(sample_rate) == 10 * sample_rate

\* phase += lfo_increment; if (phase >= 2 pi) phase -= 2 pi
LfoAdvance(phase, steps, cycle) ==
    IF phase + steps >= cycle THEN phase + steps - cycle ELSE phase + steps

\* static_cast<std::size_t>((lfo * 0.5f + 0.5f) * depth * sample_rate_),
\* depth in thousandths
LfoDelay(lfo, depth, sample_rate) ==
    ((lfo + 100) * depth * sample_rate) \div 200000

\* lines 7-17 and audio_effects.hpp:33-63
AudioEffects(sample_rate) ==
    [sample_rate_ |-> sample_rate,
     bass_lp_left_ |-> 0, bass_lp_right_ |-> 0,
     echo_buffer_left_ |-> [i \in 0..(kEchoBufferSize - 1) |-> 0],
     echo_buffer_right_ |-> [i \in 0..(kEchoBufferSize - 1) |-> 0],
     echo_write_pos_ |-> 0,
     reverb_buffer_left_ |-> [i \in 0..(kReverbBufferSize - 1) |-> 0],
     reverb_buffer_right_ |-> [i \in 0..(kReverbBufferSize - 1) |-> 0],
     reverb_write_pos_ |-> 0,
     flanger_buffer_left_ |-> [i \in 0..(kFlangerBufferSize - 1) |-> 0],
     flanger_buffer_right_ |-> [i \in 0..(kFlangerBufferSize - 1) |-> 0],
     flanger_write_pos_ |-> 0, flanger_lfo_phase_ |-> 0,
     phaser_state_left_ |-> [i \in 0..3 |-> 0],
     phaser_state_right_ |-> [i \in 0..3 |-> 0],
     phaser_lfo_phase_ |-> 0,
     chorus_buffer_left_ |-> [i \in 0..(kChorusBufferSize - 1) |-> 0],
     chorus_buffer_right_ |-> [i \in 0..(kChorusBufferSize - 1) |-> 0],
     chorus_write_pos_ |-> 0,
     chorus_lfo_phase1_ |-> 0, chorus_lfo_phase2_ |-> 0]

\* lines 53-61: one frame of apply_bass_boost
bass_boost_frame(f, left, right) ==
    LET lp_left  == f.bass_lp_left_ + Pct(left - f.bass_lp_left_, 15)
        lp_right == f.bass_lp_right_ + Pct(right - f.bass_lp_right_, 15)
    IN  [fx    |-> [f EXCEPT !.bass_lp_left_ = lp_left, !.bass_lp_right_ = lp_right],
         left  |-> ClampSample(Pct(lp_left, 180) + Pct(left, 10)),
         right |-> ClampSample(Pct(lp_right, 180) + Pct(right, 10)),
         reads |-> {}]

\* a delay one frame longer
echo_delay_samples_Longer(sample_rate) == Pct(sample_rate, 25) + 1

\* lines 66 and 70: static_cast<std::size_t>(0.25f * sample_rate_)
echo_delay_samples(sample_rate) == Pct(sample_rate, 25)

\* lines 70-92: one frame of apply_echo
echo_frame(f, left, right) ==
    LET read_pos == USub(UAdd(f.echo_write_pos_, kEchoBufferSize),
                         echo_delay_samples(f.sample_rate_))
                       % kEchoBufferSize
        delayed_left  == RingAt(f.echo_buffer_left_, read_pos)
        delayed_right == RingAt(f.echo_buffer_right_, read_pos)
    IN  [fx    |-> [f EXCEPT
                      !.echo_buffer_left_[f.echo_write_pos_] =
                          ClampSample(left + Pct(delayed_left, 40)),
                      !.echo_buffer_right_[f.echo_write_pos_] =
                          ClampSample(right + Pct(delayed_right, 40)),
                      !.echo_write_pos_ = RingNext(f.echo_write_pos_, kEchoBufferSize)],
         left  |-> ClampSample(Pct(left, 70) + Pct(delayed_left, 30)),
         right |-> ClampSample(Pct(right, 70) + Pct(delayed_right, 30)),
         reads |-> {<<"Echo", read_pos>>}]

\* lines 100-105: the four taps, in thousandths of a second
ReverbTaps == {29, 37, 41, 43}

ReverbReadPos(f, tap) ==
    USub(UAdd(f.reverb_write_pos_, kReverbBufferSize), Permille(f.sample_rate_, tap))
       % kReverbBufferSize

RECURSIVE SumTaps(_, _, _)
SumTaps(f, ring, taps) ==
    IF taps = {} THEN 0
    ELSE LET tap == CHOOSE t \in taps : TRUE
         IN  Pct(RingAt(ring, ReverbReadPos(f, tap)), 50)
                + SumTaps(f, ring, taps \ {tap})

\* lines 108-128: one frame of apply_reverb
reverb_frame(f, left, right) ==
    LET reverb_left  == Pct(SumTaps(f, f.reverb_buffer_left_, ReverbTaps), 25)
        reverb_right == Pct(SumTaps(f, f.reverb_buffer_right_, ReverbTaps), 25)
    IN  [fx    |-> [f EXCEPT
                      !.reverb_buffer_left_[f.reverb_write_pos_] =
                          left + Pct(reverb_left, 50),
                      !.reverb_buffer_right_[f.reverb_write_pos_] =
                          right + Pct(reverb_right, 50),
                      !.reverb_write_pos_ =
                          RingNext(f.reverb_write_pos_, kReverbBufferSize)],
         left  |-> ClampSample(Pct(left, 65) + Pct(reverb_left, 35)),
         right |-> ClampSample(Pct(right, 65) + Pct(reverb_right, 35)),
         reads |-> {<<"Reverb", ReverbReadPos(f, tap)>> : tap \in ReverbTaps}]

\* lines 138-164: one frame of apply_flanger
flanger_frame(f, left, right) ==
    LET cycle == LfoCycle(f.sample_rate_)
        lfo == SinPct(f.flanger_lfo_phase_, cycle)
        base_delay == Permille(f.sample_rate_, 2)
        delay_samples == Min(UAdd(base_delay, LfoDelay(lfo, 3, f.sample_rate_)),
                             kFlangerBufferSize - 1)
        read_pos == USub(UAdd(f.flanger_write_pos_, kFlangerBufferSize), delay_samples)
                       % kFlangerBufferSize
        delayed_left  == RingAt(f.flanger_buffer_left_, read_pos)
        delayed_right == RingAt(f.flanger_buffer_right_, read_pos)
    IN  [fx    |-> [f EXCEPT
                      !.flanger_lfo_phase_ = LfoAdvance(f.flanger_lfo_phase_, 5, cycle),
                      !.flanger_buffer_left_[f.flanger_write_pos_] =
                          left + Pct(delayed_left, 60),
                      !.flanger_buffer_right_[f.flanger_write_pos_] =
                          right + Pct(delayed_right, 60),
                      !.flanger_write_pos_ =
                          RingNext(f.flanger_write_pos_, kFlangerBufferSize)],
         left  |-> ClampSample(Pct(left, 50) + Pct(delayed_left, 50)),
         right |-> ClampSample(Pct(right, 50) + Pct(delayed_right, 50)),
         reads |-> {<<"Flanger", read_pos>>}]

\* lines 186-190: the four all-pass stages on one channel
RECURSIVE AllPass(_, _, _, _)
AllPass(state, in, apf_coeff, stage) ==
    IF stage >= 4 THEN [state |-> state, out |-> in]
    ELSE LET output == (0 - in) + state[stage]
         IN  AllPass([state EXCEPT ![stage] = in + Pct(output, apf_coeff)],
                     output, apf_coeff, stage + 1)

\* lines 170-200: one frame of apply_phaser
phaser_frame(f, left, right) ==
    LET cycle == LfoCycle(f.sample_rate_)
        lfo == SinPct(f.phaser_lfo_phase_, cycle)
        apf_coeff == 30 + (lfo + 100) \div 4
        l == AllPass(f.phaser_state_left_, left, apf_coeff, 0)
        r == AllPass(f.phaser_state_right_, right, apf_coeff, 0)
    IN  [fx    |-> [f EXCEPT
                      !.phaser_lfo_phase_ = LfoAdvance(f.phaser_lfo_phase_, 4, cycle),
                      !.phaser_state_left_ = l.state,
                      !.phaser_state_right_ = r.state],
         left  |-> ClampSample(Pct(left, 50) + Pct(l.out, 50) + Pct(l.out, 21)),
         right |-> ClampSample(Pct(right, 50) + Pct(r.out, 50) + Pct(r.out, 21)),
         reads |-> {}]

\* lines 226-232: the read index of one voice
ChorusReadPos(f, lfo) ==
    LET base_delay == Permille(f.sample_rate_, 20)
        delay == Min(UAdd(base_delay, LfoDelay(lfo, 2, f.sample_rate_)),
                     kChorusBufferSize - 1)
    IN  USub(UAdd(f.chorus_write_pos_, kChorusBufferSize), delay) % kChorusBufferSize

\* lines 210-248: one frame of apply_chorus
chorus_frame(f, left, right) ==
    LET cycle == LfoCycle(f.sample_rate_)
        read_pos1 == ChorusReadPos(f, SinPct(f.chorus_lfo_phase1_, cycle))
        read_pos2 == ChorusReadPos(f, SinPct(f.chorus_lfo_phase2_, cycle))
        chorused_left == Pct(RingAt(f.chorus_buffer_left_, read_pos1)
                                + RingAt(f.chorus_buffer_left_, read_pos2), 50)
        chorused_right == Pct(RingAt(f.chorus_buffer_right_, read_pos1)
                                 + RingAt(f.chorus_buffer_right_, read_pos2), 50)
    IN  [fx    |-> [f EXCEPT
                      !.chorus_lfo_phase1_ = LfoAdvance(f.chorus_lfo_phase1_, 7, cycle),
                      !.chorus_lfo_phase2_ = LfoAdvance(f.chorus_lfo_phase2_, 11, cycle),
                      !.chorus_buffer_left_[f.chorus_write_pos_] = left,
                      !.chorus_buffer_right_[f.chorus_write_pos_] = right,
                      !.chorus_write_pos_ =
                          RingNext(f.chorus_write_pos_, kChorusBufferSize)],
         left  |-> ClampSample(Pct(left, 60) + Pct(chorused_left, 40)),
         right |-> ClampSample(Pct(right, 60) + Pct(chorused_right, 40)),
         reads |-> {<<"Chorus", read_pos1>>, <<"Chorus", read_pos2>>}]

\* the effect left out of the switch
EffectFrame_BassAlways(effect, f, left, right) == bass_boost_frame(f, left, right)

\* lines 24-45: the switch, for one frame
EffectFrame(effect, f, left, right) ==
    CASE effect = "BassBoost" -> bass_boost_frame(f, left, right)
      [] effect = "Echo"      -> echo_frame(f, left, right)
      [] effect = "Reverb"    -> reverb_frame(f, left, right)
      [] effect = "Flanger"   -> flanger_frame(f, left, right)
      [] effect = "Phaser"    -> phaser_frame(f, left, right)
      [] effect = "Chorus"    -> chorus_frame(f, left, right)

\* the loop over the frames of the interleaved buffer, from frame i
RECURSIVE ApplyFrames(_, _, _, _, _)
ApplyFrames(effect, f, buffer, i, frame_count) ==
    IF i >= frame_count
    THEN [fx |-> f, buffer |-> buffer, reads |-> {}]
    ELSE LET idx  == i * 2
             step == EffectFrame(effect, f, buffer[idx + 1], buffer[idx + 2])
             rest == ApplyFrames(effect, step.fx,
                                 [buffer EXCEPT ![idx + 1] = step.left,
                                                ![idx + 2] = step.right],
                                 i + 1, frame_count)
         IN  [rest EXCEPT !.reads = rest.reads \cup step.reads]

\* None run through the effects like any other kind
ApplyEffects_NoneProcessed(f, buffer, frame_count, effect) ==
    ApplyFrames(IF effect = "None" THEN "Echo" ELSE effect, f, buffer, 0, frame_count)

\* lines 19-46: AudioEffects::apply_effects on the object f
ApplyEffects(f, buffer, frame_count, effect) ==
    IF effect = "None"
    THEN [fx |-> f, buffer |-> buffer, reads |-> {}]
    ELSE ApplyFrames(effect, f, buffer, 0, frame_count)

\* frame_count frames, each the given one, interleaved
FilledBuffer(frame, frame_count) ==
    [k \in 1..(2 * frame_count) |-> frame[2 - (k % 2)]]

NoCall ==
    [calls |-> 0, effect |-> "None", frame_count |-> 0, input |-> << >>,
     output |-> << >>, reads |-> {}]

\* one call of apply_effects on fx
apply_call(effect, frame_count, frame) ==
    /\ fx_call.calls < MaxCalls
    /\ LET input  == FilledBuffer(frame, frame_count)
           result == ApplyEffects(fx, input, frame_count, effect)
       IN  /\ fx' = result.fx
           /\ fx_call' = [calls |-> fx_call.calls + 1, effect |-> effect,
                          frame_count |-> frame_count, input |-> input,
                          output |-> result.buffer, reads |-> result.reads]
    /\ UNCHANGED <<pc, decVars, devVars, flagVars, knobVars, lockVars, state_,
                   audio_effects_, wave, fmt, vizVars, localVars,
                   begun_after_stop, chunk>>

AE_Apply ==
    \E effect \in AudioEffect, frame_count \in FrameCounts, frame \in InputFrames :
        apply_call(effect, frame_count, frame)

---------------------------------------------------------------------------
(* update_waveform, src/src/player.cpp lines 723-747, on a ring of its own *)
(* that is shorter than the program's.  A frame of the input stream is     *)
(* its number in the stream: the left sample is the number, the right      *)
(* sample its negative.                                                    *)

\* length of the ring, in frames
WaveRing == 2
\* sample counts of the calls: buffers shorter than the ring, as long, twice
\* as long (the program's 1024 frames against 512) and long enough to be
\* decimated
WaveSampleCounts == {0, 2, 2 * WaveRing, 4 * WaveRing, 8 * WaveRing, 12 * WaveRing}

WaveInit ==
    [left |-> [i \in 0..(WaveRing - 1) |-> 0],
     right |-> [i \in 0..(WaveRing - 1) |-> 0],
     write_pos |-> 0,
     calls |-> 0,
     frames |-> 0,        \* frames of the stream passed to the calls so far
     fed |-> << >>,       \* the decimated frames of the stream, in order
     written |-> << >>,   \* the frames written to the ring, in order
     slots |-> << >>]     \* the index of each of these writes

\* the cursor held on the last element
WaveformWrap_Stay(pos, capacity) == Min(pos, capacity - 1)

\* lines 729-731: the cursor taken back to 0 at the end of the ring
WaveformWrap(pos, capacity) == IF pos >= capacity THEN 0 ELSE pos

\* the fill pass going on to the end of the buffer
WaveformStop_Never(pos, capacity) == FALSE

\* lines 737-739: the fill pass ends when the cursor reaches the end
WaveformStop(pos, capacity) == pos >= capacity

\* lines 728-740: the fill pass from sample i of a buffer that starts at
\* frame first of the stream
RECURSIVE WaveformLoop(_, _, _, _, _, _)
WaveformLoop(w, first, i, sample_count, decimation, capacity) ==
    IF i >= sample_count THEN w
    ELSE LET pos   == WaveformWrap(w.write_pos, capacity)
             frame == first + i \div 2
             w1    == [w EXCEPT !.left[pos] = frame,
                                !.right[pos] = 0 - frame,
                                !.write_pos = pos + 1,
                                !.written = Append(@, frame),
                                !.slots = Append(@, pos)]
         IN  IF WaveformStop(pos + 1, capacity) THEN w1
             ELSE WaveformLoop(w1, first, i + decimation * 2, sample_count,
                               decimation, capacity)

\* the frames of a buffer that the decimation selects
DecimatedFrames(first, sample_count, decimation) ==
    LET n == (sample_count + decimation * 2 - 1) \div (decimation * 2)
    IN  [k \in 1..n |-> first + (k - 1) * decimation]

\* lines 723-740 on a ring of the given capacity
update_waveform(w, first, sample_count, capacity) ==
    LET decimation == Max(1, sample_count \div (capacity * 4))
    IN  WaveformLoop(w, first, 0, sample_count, decimation, capacity)

\* one call of update_waveform on wave
UW_Feed ==
    /\ wave.calls < MaxCalls
    /\ \E sample_count \in WaveSampleCounts :
          LET first == wave.frames + 1
              decimation == Max(1, sample_count \div (WaveRing * 4))
              w == update_waveform(wave, first, sample_count, WaveRing)
          IN  wave' = [w EXCEPT !.calls = @ + 1,
                                !.frames = @ + sample_count \div 2,
                                !.fed = @ \o DecimatedFrames(first, sample_count,
                                                             decimation)]
    /\ UNCHANGED <<pc, decVars, devVars, flagVars, knobVars, lockVars, state_,
                   audio_effects_, fx, fx_call, fmt, vizVars, localVars,
                   begun_after_stop, chunk>>

---------------------------------------------------------------------------
(* format_note_event, src/src/note_formatter.cpp.  A string is the         *)
(* sequence of its characters; a std::optional<int> is a record that says  *)
(* whether a value is present.                                             *)

Nullopt == [present |-> FALSE, value |-> 0]
Some(v) == [present |-> TRUE, value |-> v]

NOTE_NAMES ==
    << <<"C", "-">>, <<"C", "#">>, <<"D", "-">>, <<"D", "#">>, <<"E", "-">>,
       <<"F", "-">>, <<"F", "#">>, <<"G", "-">>, <<"G", "#">>, <<"A", "-">>,
       <<"A", "#">>, <<"B", "-">> >>

DigitChars ==
    <<"0", "1", "2", "3", "4", "5", "6", "7", "8", "9", "A", "B", "C", "D", "E", "F">>

\* the digits of n >= 0 in a base, all of them
RECURSIVE Digits(_, _)
Digits(n, base) ==
    IF n < base THEN <<DigitChars[n + 1]>>
    ELSE Digits(n \div base, base) \o <<DigitChars[(n % base) + 1]>>

\* operator<< of an int in decimal
Decimal(n) == IF n < 0 THEN <<"-">> \o Digits(0 - n, 10) ELSE Digits(n, 10)

\* operator<< of an int under std::hex: the digits of its unsigned value
Hex(n) == Digits(IF n < 0 THEN n + 2 ^ IntBits ELSE n, 16)

\* std::setw(width) << std::setfill(fill): a minimum width, filled on the left
SetW(text, width, fill) ==
    IF Len(text) >= width THEN text
    ELSE [i \in 1..(width - Len(text)) |-> fill] \o text

\* lines 16-26
format_note_name(note) ==
    IF ~note.present \/ note.value < 0 THEN <<"-", "-", "-">>
    ELSE NOTE_NAMES[(note.value % 12) + 1] \o Decimal(note.value \div 12)

\* lines 28-35
format_instrument(instrument) ==
    IF ~instrument.present \/ instrument.value <= 0 THEN <<".", ".">>
    ELSE SetW(Decimal(instrument.value), 2, "0")

\* lines 37-44
format_volume(volume) ==
    IF ~volume.present \/ volume.value < 0 THEN <<".", ".">>
    ELSE SetW(Decimal(Clamp(volume.value, 0, 64)), 2, "0")

\* lines 46-63
format_effect(effect, param) ==
    IF ~effect.present /\ ~param.present THEN <<".", ".", ".">>
    ELSE (IF effect.present THEN SetW(Hex(effect.value), 1, " ") ELSE <<".">>)
            \o (IF param.present THEN SetW(Hex(param.value), 2, "0")
                                 ELSE <<".", ".">>)

\* lines 65-72
format_note_event(event) ==
    format_note_name(event.note) \o <<" ">>
       \o format_instrument(event.instrument) \o <<" ">>
       \o format_volume(event.volume) \o <<" ">>
       \o format_effect(event.effect, event.effect_param)

\* the events formatted: every field absent, at its ends and in between
NoteEvents ==
    [note         : {Nullopt, Some(0 - 1), Some(0), Some(13), Some(24), Some(IntMax)},
     instrument   : {Nullopt, Some(0 - 1), Some(0), Some(2), Some(5), Some(99),
                     Some(100)},
     volume       : {Nullopt, Some(0 - 1), Some(0), Some(48), Some(64), Some(65)},
     effect       : {Nullopt, Some(0), Some(10)},
     effect_param : {Nullopt, Some(0), Some(15), Some(IntMax)}]

FmtInit ==
    [event |-> [note |-> Nullopt, instrument |-> Nullopt, volume |-> Nullopt,
                effect |-> Nullopt, effect_param |-> Nullopt],
     text |-> << >>]

\* the call of format_note_event on the event
NF_Format ==
    /\ fmt.text = << >>
    /\ fmt' = [fmt EXCEPT !.text = format_note_event(fmt.event)]
    /\ UNCHANGED <<pc, decVars, devVars, flagVars, knobVars, lockVars, state_,
                   audio_effects_, fx, fx_call, wave, vizVars, localVars,
                   begun_after_stop, chunk>>

---------------------------------------------------------------------------
(* The chunk loop of export_to_file, src/src/player.cpp lines 772-827, with *)
(* its sample counts.  The decoder holds frames stereo frames; a render of *)
(* n frames returns min(n, frames) and writes two samples per frame        *)
(* returned, whatever options.channels is.                                 *)

\* the 4096 of line 775
ChunkFrames == 2
\* values of options.channels
ChannelCounts == 1..3
\* bounds of total_samples and of the frames the decoder holds
MaxTotalSamples == 8
MaxDecoderFrames == 6

ChunkIdle ==
    [channels |-> 2, total_samples |-> 0, samples_rendered |-> 0, frames |-> 0,
     renders |-> 0, written |-> 0, running |-> FALSE]
ChunkStart(channels, total_samples, frames) ==
    [ChunkIdle EXCEPT !.channels = channels, !.total_samples = total_samples,
                      !.frames = frames, !.running = total_samples > 0]

\* line 775
chunk_size(channels) == ChunkFrames * channels
\* samples read_interleaved_stereo writes for the frames it returns
StereoSamples(frames_read, channels) == frames_read * 2

\* lines 781-826: one turn of the loop; the progress callback answers go on
\* or cancel
ChunkTurn(c, go) ==
    LET to_read        == Min(chunk_size(c.channels), c.total_samples - c.samples_rendered)
        frames_to_read == to_read \div c.channels
        frames_read    == Min(frames_to_read, c.frames)
        rendered       == c.samples_rendered + frames_read * c.channels
    IN  [c EXCEPT !.renders = @ + 1,
                  !.written = StereoSamples(frames_read, c.channels),
                  !.frames = @ - frames_read,
                  !.samples_rendered = rendered,
                  !.running = frames_read # 0 /\ go /\ rendered < c.total_samples]

XC_Render ==
    /\ chunk.running
    /\ \E go \in BOOLEAN : chunk' = ChunkTurn(chunk, go)
    /\ UNCHANGED <<pc, decVars, devVars, flagVars, knobVars, lockVars, state_,
                   audio_effects_, fx, fx_call, wave, fmt, vizVars, localVars,
                   begun_after_stop>>

---------------------------------------------------------------------------
(* The state after Player::Player, lines 105-195 *)

EmptyState ==
    [order |-> 0 - 1, pattern |-> 0 - 1, row |-> 0 - 1, position_seconds |-> 0,
     paused |-> FALSE, finished |-> FALSE, channels |-> << >>, preview_rows |-> << >>,
     spectrum_bands |-> [size |-> kSpectrumBands, level |-> 0],
     waveform_left |-> [size |-> 0, level |-> 0],
     waveform_right |-> [size |-> 0, level |-> 0]]

PlayerInit(loaded) ==
    /\ pc = [t \in Threads |-> IF t = "E" THEN "none" ELSE "idle"]
    /\ song = loaded
    /\ module_ = [order |-> 0, row |-> 0, ended |-> FALSE, vu |-> 0]
    /\ stream_active = FALSE
    /\ playback_thread_ = 0
    /\ running_ = FALSE
    /\ paused_ = FALSE
    /\ stop_requested_ = FALSE
    /\ finished_ = FALSE
    /\ stream_running_ = FALSE
    /\ volume_ = VolOne
    /\ current_effect_ = "None"
    /\ state_mutex_ = Free
    /\ module_mutex_ = Free
    /\ spectrum_mutex_ = Free
    /\ waveform_mutex_ = Free
    /\ state_ = RefreshTail(RefreshHead(EmptyState))
    /\ audio_effects_ = {}
    /\ fft_write_pos_ = 0
    /\ spectrum_bands_ = [size |-> kSpectrumBands, level |-> 0]
    /\ waveform_write_pos_ = 0
    /\ waveform_buffer_ = [size |-> kWaveformSize, level |-> 0]
    /\ eng = EngInit
    /\ ctl = CtlInit
    /\ exp = ExpInit
    /\ begun_after_stop = 0

\* audio_effects_(sample_rate) of line 106, as an object of its own
UnitInit ==
    /\ fx = AudioEffects(100)
    /\ fx_call = NoCall
    /\ wave = WaveInit
    /\ fmt = FmtInit
    /\ chunk = ChunkIdle

InitSong(loaded) == PlayerInit(loaded) /\ UnitInit

Init == InitSong(DefaultSong)

USL_HeadE == USL_Head("E")
USL_TailE == USL_Tail("E")
USL_HeadU == USL_Head("U")
USL_TailU == USL_Tail("U")

\* the playback thread while no effect is selected
PlainEngineNext ==
    \/ PL_ReadFlags \/ PL_ReadWasRunning \/ PL_StopStream \/ PL_ZeroVu \/ PL_Wait
    \/ PL_ReadNeedStart \/ PL_StartStream \/ PL_Started \/ PL_Render \/ PL_Finish
    \/ PL_ReadVolume \/ PL_Spectrum \/ PL_PublishSpectrum
    \/ PL_Waveform \/ PL_PublishWaveform \/ PL_WriteStream \/ PL_LockRefresh
    \/ USL_HeadE \/ USL_TailE

EngineNext == PlainEngineNext \/ PL_ApplyEffects

ControlNext ==
    \/ U_StartCall \/ U_StartCheck \/ U_StartStream \/ U_StartSpawn
    \/ U_StopCall \/ U_StopCheck \/ U_StopFlags \/ U_StopNotify
    \/ U_StopJoin \/ U_StopStream
    \/ U_ToggleFlip \/ U_ToggleNotify \/ U_SetVolume \/ U_SetEffect
    \/ U_SnapshotCopy \/ U_SnapshotReturn
    \/ U_JumpOrderSeek \/ U_JumpRowsCall \/ U_JumpRowsZero \/ U_JumpRowsSeek
    \/ U_JumpClear \/ USL_HeadU \/ USL_TailU

ExportNext ==
    \/ X_ExportPause \/ X_Save \/ X_Read \/ X_Process \/ X_Encode \/ X_Restore
    \/ X_Resume

Next == EngineNext \/ PL_SpuriousWakeup \/ ControlNext \/ ExportNext

Spec == Init /\ [][Next]_vars

\* the player with its control thread, no export running and the volume
\* left at 1.0
PlayNext ==
    \/ EngineNext \/ PL_SpuriousWakeup
    \/ U_StartCall \/ U_StartCheck \/ U_StartStream \/ U_StartSpawn
    \/ U_StopCall \/ U_StopCheck \/ U_StopFlags \/ U_StopNotify
    \/ U_StopJoin \/ U_StopStream
    \/ U_ToggleFlip \/ U_ToggleNotify \/ U_SetEffect
    \/ U_SnapshotCopy \/ U_SnapshotReturn
    \/ U_JumpOrderSeek \/ U_JumpRowsCall \/ U_JumpRowsZero \/ U_JumpRowsSeek
    \/ U_JumpClear \/ USL_HeadU \/ USL_TailU
PlaySpec == Init /\ [][PlayNext]_vars

\* the engine with start, toggle_pause and the volume setter
VolumeNext ==
    \/ PlainEngineNext \/ PL_SpuriousWakeup
    \/ U_StartCall \/ U_StartCheck \/ U_StartStream \/ U_StartSpawn
    \/ U_ToggleFlip \/ U_ToggleNotify \/ U_SetVolume
VolumeSpec == Init /\ [][VolumeNext]_vars

\* the same without the volume and effect setters: the volume stays 1.0 and
\* no effect is selected
CoreNext ==
    \/ PlainEngineNext \/ PL_SpuriousWakeup
    \/ U_StartCall \/ U_StartCheck \/ U_StartStream \/ U_StartSpawn
    \/ U_StopCall \/ U_StopCheck \/ U_StopFlags \/ U_StopNotify
    \/ U_StopJoin \/ U_StopStream
    \/ U_ToggleFlip \/ U_ToggleNotify \/ U_SnapshotCopy \/ U_SnapshotReturn
    \/ U_JumpOrderSeek \/ U_JumpRowsCall \/ U_JumpRowsZero \/ U_JumpRowsSeek
    \/ U_JumpClear \/ USL_HeadU \/ USL_TailU
CoreSpec == Init /\ [][CoreNext]_vars

\* Scheduling.  Every thread that is running is scheduled again and again,
\* and a thread that finds its mutex free again and again gets it: the
\* playback thread goes on with its loop, and a caller inside a call goes on
\* to the end of the call.  Nothing obliges a caller to make a call, and
\* nothing obliges the condition variable to wake its waiter without a
\* notification.
CallNext ==
    \/ U_StartCheck \/ U_StartStream \/ U_StartSpawn
    \/ U_StopCheck \/ U_StopFlags \/ U_StopNotify \/ U_StopJoin \/ U_StopStream
    \/ U_ToggleNotify \/ U_SnapshotReturn \/ U_JumpRowsZero \/ U_JumpRowsSeek
    \/ U_JumpClear \/ USL_HeadU \/ USL_TailU
FairSpec == CoreSpec /\ SF_vars(PlainEngineNext) /\ SF_vars(CallNext)

\* an export beside the engine, with the control operations that start and
\* pause the engine, on the short song
ExportRunNext ==
    \/ PlainEngineNext \/ PL_SpuriousWakeup \/ ExportNext
    \/ U_StartCall \/ U_StartCheck \/ U_StartStream \/ U_StartSpawn
    \/ U_ToggleFlip \/ U_ToggleNotify
ExportSpec == InitSong(ShortSong) /\ [][ExportRunNext]_vars

\* every user of the decoder: the engine, the export and the jumps with
\* their refresh, on the short song
\* Playback of a song some of whose cells cannot be formatted: the engine,
\* start and toggle_pause.
SongCells ==
    {c \in (0..(SongOrders - 1)) \X (0..SongOrders) \X (0..(NumChannels - 1)) :
        c[2] < DefaultSong.pattern_rows[c[1] + 1]}
FaultInit == \E bad \in SUBSET SongCells : InitSong([DefaultSong EXCEPT !.bad_cells = bad])
FaultNext ==
    \/ PlainEngineNext \/ PL_SpuriousWakeup
    \/ U_StartCall \/ U_StartCheck \/ U_StartStream \/ U_StartSpawn
    \/ U_ToggleFlip \/ U_ToggleNotify
FaultSpec == FaultInit /\ [][FaultNext]_vars

\* Navigation alone, over every layout of up to NavOrders orders: each order
\* plays an invalid pattern (-1) or a pattern of 0 to 2 rows; the deltas
\* reach the ends of the int range.
NavOrders == 4
NavRowCounts == {0 - 1, 0, 1, 2}
NavLayouts == UNION {[1..n -> NavRowCounts] : n \in 1..NavOrders}
NavSong(layout) ==
    [order_pattern |-> [o \in 1..Len(layout) |-> IF layout[o] < 0 THEN 0 - 1 ELSE o - 1],
     pattern_rows  |-> [p \in 1..Len(layout) |-> Max(0, layout[p])],
     bad_cells     |-> {}]
NavOrderDeltas == {IntMin, 0 - 1, 0, 1, 10, IntMax}
NavRowDeltas == {IntMin, 0 - IntMax, 0 - 3, 0 - 2, 0 - 1, 0, 1, 2, 3, IntMax}
NavInit == \E layout \in NavLayouts : InitSong(NavSong(layout))
U_NavJumpOrder == \E delta \in NavOrderDeltas : jump_to_order(delta)
U_NavJumpRows == \E d \in NavRowDeltas : jump_rows(d)
NavNext ==
    \/ U_NavJumpOrder \/ U_NavJumpRows \/ U_JumpRowsZero \/ U_JumpRowsSeek
    \/ U_JumpClear \/ USL_HeadU \/ USL_TailU
NavSpec == NavInit /\ [][NavNext]_vars

\* an AudioEffects object called directly, at most MaxCalls times, with
\* every effect kind, buffers of 0 to 3 frames and three sample rates: one
\* whose delays fit the rings and two whose delays exceed them
FxInit ==
    /\ PlayerInit(DefaultSong)
    /\ \E sample_rate \in SampleRates : fx = AudioEffects(sample_rate)
    /\ fx_call = NoCall
    /\ wave = WaveInit
    /\ fmt = FmtInit
    /\ chunk = ChunkIdle
FxNext == AE_Apply
FxSpec == FxInit /\ [][FxNext]_vars

\* an AudioEffects object whose echo is fed directly, from silence, at most
\* MaxCalls buffers of 0 to 4 frames, each held at one frame or silent; the
\* delays of 1 and 2 frames fit the ring as the program's 12000 frames fit
\* its ring of 48000
EchoRates == {4, 8}
EchoCounts == 0..4
EchoInputs == InputFrames \cup {<<0, 0>>}
EchoInit ==
    /\ PlayerInit(DefaultSong)
    /\ \E sample_rate \in EchoRates : fx = AudioEffects(sample_rate)
    /\ fx_call = NoCall
    /\ wave = WaveInit
    /\ fmt = FmtInit
    /\ chunk = ChunkIdle
AE_Echo ==
    \E frame_count \in EchoCounts, frame \in EchoInputs :
        apply_call("Echo", frame_count, frame)
EchoNext == AE_Echo
EchoSpec == EchoInit /\ [][EchoNext]_vars

\* a waveform ring fed directly, at most MaxCalls buffers
WaveNext == UW_Feed
WaveSpec == Init /\ [][WaveNext]_vars

\* the chunk loop of an export for every channel count, length of the export
\* and length of what the decoder holds
ChunkInit ==
    /\ PlayerInit(DefaultSong)
    /\ fx = AudioEffects(100) /\ fx_call = NoCall /\ wave = WaveInit /\ fmt = FmtInit
    /\ \E channels \in ChannelCounts, total_samples \in 0..MaxTotalSamples,
          frames \in 0..MaxDecoderFrames :
          chunk = ChunkStart(channels, total_samples, frames)
ChunkNext == XC_Render
ChunkSpec == ChunkInit /\ [][ChunkNext]_vars

\* format_note_event called on any one event
FormatInit ==
    /\ PlayerInit(DefaultSong)
    /\ fx = AudioEffects(100) /\ fx_call = NoCall /\ wave = WaveInit
    /\ chunk = ChunkIdle
    /\ \E event \in NoteEvents : fmt = [event |-> event, text |-> << >>]
FormatNext == NF_Format
FormatSpec == FormatInit /\ [][FormatNext]_vars

\* an export while the player plays with an effect selected, on the song of
\* one row
EffectExportNext ==
    \/ EngineNext \/ PL_SpuriousWakeup \/ ExportNext
    \/ U_StartCall \/ U_StartCheck \/ U_StartStream \/ U_StartSpawn
    \/ U_SetEffect
EffectExportSpec == InitSong(OneRowSong) /\ [][EffectExportNext]_vars

DecoderNext ==
    \/ PlainEngineNext \/ PL_SpuriousWakeup \/ ExportNext
    \/ U_StartCall \/ U_StartCheck \/ U_StartStream \/ U_StartSpawn
    \/ U_JumpOrderSeek \/ U_JumpRowsCall \/ U_JumpRowsZero \/ U_JumpRowsSeek
    \/ U_JumpClear \/ USL_HeadU \/ USL_TailU
DecoderSpec == InitSong(OneRowSong) /\ [][DecoderNext]_vars

---------------------------------------------------------------------------
(* The end of the song *)

\* C1 as stated: once finished is set, only a start() after a stop() clears
\* it; toggle_pause, the setters, jump_to_order, jump_rows and snapshot leave
\* it set.
C1_FinishedUntilRestart ==
    [][(finished_ /\ ~finished_') => pc["U"] = "st_spawn"]_vars

\* C1: a render that returns no frames sets finished in the flag and in the
\* published state and ends the loop with no device write; from then on
\* finished is cleared by nothing but the state-lock section of
\* jump_to_order and jump_rows (not by toggle_pause, set_volume, set_effect,
\* snapshot, stop or start), and the published copy always equals the flag.
C1_FinishedSticky ==
    /\ [](pc["E"] = "pl_finish" => eng.frames_rendered <= 0)
    /\ [](pc["E"] \in {"pl_volume", "pl_effects", "pl_spectrum", "pl_write"}
             => eng.frames_rendered > 0)
    /\ [][pc["E"] = "pl_finish" /\ pc'["E"] # "pl_finish"
             => finished_' /\ state_'.finished /\ pc'["E"] = "exited"]_vars
    /\ [][(finished_ /\ ~finished_') => pc["U"] = "jump_lock"]_vars
    /\ [](state_.finished = finished_)

\* the engine restarted by stop() and start() after the song ended, finished
\* still set
C1_Witness ==
    /\ finished_ /\ state_.finished
    /\ pc["E"] = "pl_top" /\ playback_thread_ = 1

---------------------------------------------------------------------------
(* stop() *)

\* C2: whenever stop() is entered on a started engine, whatever the playback
\* thread is doing (rendering, blocked in the pause wait, out of its loop),
\* the call eventually returns with the thread joined and the engine not
\* running; the device is stopped by stop() only after the join.
C2_StopReturns ==
    /\ (pc["U"] = "sp_check" /\ running_)
          ~> (pc["U"] = "idle" /\ ~running_ /\ playback_thread_ = 0 /\ pc["E"] = "none")
    /\ [](pc["U"] = "sp_stream" => playback_thread_ = 0 /\ pc["E"] = "none")

\* stop() has set its flag and is about to notify a thread blocked in the
\* pause wait
C2_Witness ==
    /\ pc["U"] = "sp_notify" /\ stop_requested_
    /\ pc["E"] = "pl_blocked"

---------------------------------------------------------------------------
(* start() and stop() on an engine that needs neither *)

\* everything but the threads' positions
dataVars == <<decVars, devVars, flagVars, knobVars, lockVars, state_,
              audio_effects_, vizVars, localVars, unitVars, begun_after_stop>>

\* C5: the step of start() that finds the engine running returns to the
\* caller and changes nothing else, whatever the playback thread is doing
\* (also out of its loop with finished set); there is never more than one
\* playback thread, and there is one exactly when the engine thread exists.
C5_StartNoop ==
    /\ [][pc["U"] = "st_check" /\ running_ /\ pc'["U"] # "st_check"
             => pc' = [pc EXCEPT !["U"] = "idle"] /\ UNCHANGED dataVars]_vars
    /\ [](playback_thread_ <= 1)
    /\ []((playback_thread_ = 1) <=> (pc["E"] # "none"))

\* start() called with the playback thread out of its loop after the end of
\* the song, before any stop()
C5_Witness ==
    /\ pc["U"] = "st_check" /\ running_
    /\ pc["E"] = "exited" /\ finished_

\* C6: the step of stop() that finds the engine not running returns to the
\* caller and changes nothing else: no flag, not the decoder, not the
\* published state.
C6_StopNoop ==
    [][pc["U"] = "sp_check" /\ ~running_ /\ pc'["U"] # "sp_check"
          => pc' = [pc EXCEPT !["U"] = "idle"] /\ UNCHANGED dataVars]_vars

\* stop() called on an engine that has played and is already stopped
C6_Witness ==
    /\ pc["U"] = "sp_check" /\ ~running_
    /\ pc["E"] = "none" /\ state_.position_seconds > 0

---------------------------------------------------------------------------
(* Pause *)

AllVuZero ==
    \A ch \in DOMAIN state_.channels :
        state_.channels[ch].vu_left = 0 /\ state_.channels[ch].vu_right = 0

\* the engine's positions from the observation of the pause flag (line 410)
\* to the end of the wait (line 438)
PausePath == {"pl_pause", "pl_stop_stream", "pl_zero", "pl_wait", "pl_blocked"}

\* C3 as stated: in every pause episode the engine enters the wait with the
\* VU levels of every channel of the published state at 0.
C3_VuZeroEveryEpisode ==
    [][pc["E"] \in {"pl_pause", "pl_zero"} /\ pc'["E"] = "pl_wait" => AllVuZero']_vars

\* C3: from the observation of the pause flag the engine stays on the pause
\* path, where nothing is rendered and nothing written to the device, and
\* leaves it only from the wait with the flag cleared, or out of the loop on
\* a stop request or a device error.  It stops the device only if the device
\* was marked running at the observation, and then once: the stop is followed
\* by the step that marks the device stopped and sets both VU levels of every
\* channel to 0, the mark stays off during the wait, and nothing on the path
\* leads back to the stop.  An observation that finds the device already
\* marked stopped goes straight to the wait and zeroes nothing.
C3_PauseQuiet ==
    /\ [][pc["E"] \in PausePath /\ pc'["E"] \notin PausePath
             => \/ pc["E"] = "pl_wait" /\ ~paused_ /\ pc'["E"] = "pl_top"
                \/ pc["E"] = "pl_wait" /\ stop_requested_ /\ pc'["E"] = "exited"
                \/ pc["E"] = "pl_stop_stream" /\ pc'["E"] = "exited"]_vars
    /\ [](pc["E"] = "pl_stop_stream" => eng.was_running /\ stream_running_)
    /\ [][pc["E"] = "pl_pause" /\ pc'["E"] # "pl_pause"
             => pc'["E"] = (IF stream_running_ THEN "pl_stop_stream" ELSE "pl_wait")]_vars
    /\ [][pc["E"] = "pl_zero" /\ pc'["E"] # "pl_zero"
             => AllVuZero' /\ ~stream_running_' /\ pc'["E"] = "pl_wait"]_vars
    /\ [](pc["E"] \in {"pl_wait", "pl_blocked"} => ~stream_running_)
    /\ [][pc["E"] \in {"pl_zero", "pl_wait", "pl_blocked"}
             => pc'["E"] # "pl_stop_stream"]_vars

\* the engine blocked in the pause wait after it played, stopped the device
\* and zeroed the VU levels the decoder still reports
C3_Witness ==
    /\ pc["E"] = "pl_blocked" /\ paused_ /\ ~stop_requested_
    /\ state_.position_seconds > 0 /\ module_.vu > 0
    /\ AllVuZero /\ ~stream_active /\ ~stream_running_

\* C4: the step of toggle_pause inverts the pause flag and writes the new
\* value into the published state in the same step; a thread blocked in the
\* pause wait with the flag cleared and no stop requested eventually reaches
\* the render of the next buffer, unless the flag is set again, stop is
\* requested or the device refuses to restart; and the engine renders only
\* with the device reactivated.
C4_ToggleResumes ==
    /\ [][pc["U"] = "idle" /\ pc'["U"] = "tp_notify"
             => paused_' = ~paused_ /\ state_'.paused = paused_']_vars
    /\ (pc["E"] = "pl_blocked" /\ ~paused_ /\ ~stop_requested_)
          ~> (pc["E"] = "pl_render" \/ paused_ \/ stop_requested_ \/ pc["E"] = "exited")
    /\ [](pc["E"] = "pl_render" => stream_running_ /\ stream_active)

\* toggle_pause has cleared the flag of a thread blocked in the pause wait
\* and is about to notify it
C4_Witness ==
    /\ pc["U"] = "tp_notify" /\ ~paused_ /\ ~state_.paused /\ ~stop_requested_
    /\ pc["E"] = "pl_blocked"

---------------------------------------------------------------------------
(* The published state *)

\* the fields of s are those of one refresh: the pattern is the one of the
\* order, every channel line and the preview are those of that pattern and row
OneRefresh(s) ==
    /\ s.pattern = get_order_pattern(s.order)
    /\ Len(s.channels) = NumChannels
    /\ \A ch \in 1..NumChannels :
          s.channels[ch].line = FormatOrPlaceholder(s.pattern, s.row, ch - 1)
    /\ s.preview_rows = PreviewRows(s.order, s.pattern, s.row)

\* C7: snapshot() copies the published state in a step that needs the state
\* lock free; the published state changes only in such steps or in the steps
\* of the thread that holds the state lock for a refresh; so the published
\* state is that of one refresh whenever the lock is free, and so is every
\* snapshot.
C7_SnapshotOneRefresh ==
    /\ [](pc["U"] = "sn_return" => OneRefresh(ctl.snap))
    /\ [](state_mutex_ = Free => OneRefresh(state_))
    /\ [][pc["U"] = "idle" /\ pc'["U"] = "sn_return"
             => state_mutex_ = Free /\ ctl'.snap = state_]_vars
    /\ [][state_' # state_
             => \/ state_mutex_ = Free
                \/ \E t \in {"E", "U"} :
                      /\ state_mutex_ = t
                      /\ pc[t] \in {"usl_mlock", "usl_tail"}
                      /\ pc'[t] # pc[t]]_vars

\* a snapshot in the caller's hands while the engine, holding the lock, is in
\* the middle of the next refresh: the published state has the new order
\* beside the old pattern
C7_Witness ==
    /\ pc["U"] = "sn_return" /\ ctl.snap.order = 0
    /\ pc["E"] = "usl_tail" /\ state_.order = 1 /\ ~OneRefresh(state_)

---------------------------------------------------------------------------
(* The decoder *)

\* the step of thread t is a decoder operation: the engine's render, the two
\* steps of a refresh, the seek of jump_to_order or jump_rows, or the save,
\* the render or the restore of export_to_file
DecoderStep(t) ==
    \/ t = "E" /\ pc["E"] = "pl_render" /\ pc'["E"] # "pl_render"
    \/ t \in {"E", "U"} /\ pc[t] \in {"usl_mlock", "usl_tail"} /\ pc'[t] # pc[t]
    \/ t = "U" /\ pc["U"] = "idle" /\ pc'["U"] = "jump_lock"
    \/ t = "U" /\ pc["U"] = "jr_check" /\ ctl.arg # 0 /\ pc'["U"] # "jr_check"
    \/ t = "X" /\ pc["X"] \in {"ex_save", "ex_read", "ex_restore"} /\ pc'["X"] # pc["X"]

\* C8: a decoder operation is a step taken with the decoder lock free or
\* held by the thread itself; a thread in the middle of a refresh holds the
\* lock, and nobody else ever holds it; the decoder changes in decoder
\* operations only.  So no decoder operation of one thread falls inside one
\* of another.
C8_DecoderExclusive ==
    /\ [][\A t \in Threads :
             DecoderStep(t) => module_mutex_ = Free \/ module_mutex_ = t]_vars
    /\ [](\A t \in Threads :
             (pc[t] = "usl_tail") <=> (module_mutex_ = t))
    /\ [][module_' # module_
             => module_mutex_ = Free /\ \E t \in Threads : DecoderStep(t)]_vars

\* the control thread inside the refresh of a jump, holding the decoder
\* lock, with the engine at its render and the export at its own
C8_Witness ==
    /\ pc["U"] = "usl_tail" /\ module_mutex_ = "U"
    /\ pc["E"] = "pl_render" /\ pc["X"] = "ex_read"

---------------------------------------------------------------------------
(* The state lock *)

\* the step of thread t reads or writes the pause flag, the stop flag, the
\* volume, the selected effect or the published state
GuardedStep(t) ==
    \/ /\ t = "E"
       /\ pc["E"] \in {"pl_top", "pl_zero", "pl_wait", "pl_finish", "pl_volume",
                       "pl_spectrum_publish", "pl_waveform_publish", "pl_refresh",
                       "usl_mlock", "usl_tail"}
       /\ pc'["E"] # pc["E"]
    \/ /\ t = "U"
       /\ \/ pc["U"] \in {"st_spawn", "sp_lock", "jump_lock", "usl_mlock", "usl_tail"}
             /\ pc'["U"] # pc["U"]
          \/ pc["U"] = "idle" /\ pc'["U"] \in {"tp_notify", "sn_return"}
          \/ pc["U"] = "idle" /\ <<volume_, current_effect_>>' # <<volume_, current_effect_>>
    \/ /\ t = "X"
       /\ \/ pc["X"] \in {"ex_process", "ex_resume"} /\ pc'["X"] # pc["X"]
          \/ pc["X"] = "idle" /\ pc'["X"] = "ex_save"

\* C9 as stated: every step that reads or writes the pause flag, the stop
\* flag, the volume, the selected effect or the published state is taken
\* with the state lock free for the thread to take, or held by it.
C9_GuardedUnderStateLock ==
    [][\A t \in Threads :
          GuardedStep(t) => state_mutex_ = Free \/ state_mutex_ = t]_vars

---------------------------------------------------------------------------
(* Export beside the engine *)

\* the export's positions from the rewind of the decoder to the restore of
\* the saved position
ExportWindow == {"ex_read", "ex_process", "ex_encode", "ex_restore"}

\* the chunks of the whole song in order
WholeSong == [i \in 1..TotalRows |-> i - 1]

\* C10 as stated: when the export found the engine playing and paused it,
\* between the rewind and the restore the decoder is moved by the export
\* alone, and the chunks handed to the encoder are the whole song from
\* time 0 in order.
C10_ExportUndisturbed ==
    /\ [][(pc["X"] \in ExportWindow /\ exp.was_playing /\ module_' # module_)
            => pc'["X"] # pc["X"]]_vars
    /\ [](pc["X"] = "ex_encode" /\ exp.was_playing => exp.audio_buffer = WholeSong)

---------------------------------------------------------------------------
(* The exits of export_to_file *)

\* C11 as stated: on every exit of export_to_file the decoder is at the
\* position saved at entry, and the pause flag the export set for a playing
\* engine is cleared again.
C11_ExportRestores ==
    [][(pc["X"] # "idle" /\ pc'["X"] = "idle")
          => /\ get_position_seconds(module_') = exp.saved_position
             /\ (exp.was_playing => ~paused_')]_vars

\* C12 as stated: when the format of the options is rejected as unsupported,
\* no buffer has been rendered from the decoder, the decoder is where it was
\* at entry and the export has not set the pause flag.
C12_UnsupportedBeforeRender ==
    [][(pc["X"] = "ex_encode" /\ exp'.outcome = "unsupported")
          => /\ exp.audio_buffer = <<>> /\ exp.samples_rendered = 0
             /\ get_position_seconds(module_) = exp.saved_position
             /\ ~exp.was_playing]_vars

---------------------------------------------------------------------------
(* Device failures *)

\* the engine's positions at a device call: lines 418, 447, 492
DeviceCall == {"pl_stop_stream", "pl_start_stream", "pl_write"}

\* C13 as stated: a failed device stop, start or write takes the playback
\* thread out of its loop for good, and the published state then shows
\* finished.
C13_DeviceFailureReported ==
    /\ [][(pc["E"] \in DeviceCall /\ pc'["E"] = "exited")
             => finished_' /\ state_'.finished]_vars
    /\ [][pc["E"] = "exited" => pc'["E"] \in {"exited", "none"}]_vars

---------------------------------------------------------------------------
(* Cells that cannot be formatted *)

\* rows that follow (o,r) in play order
RowsAfter(o, r) == TotalRows - (RowsBefore(o) + r) - 1

\* C14: whenever no refresh is half done, every channel of the published
\* state shows the placeholder if its cell cannot be formatted and the text
\* of its cell otherwise, whatever the other channels' cells do; the preview
\* holds every row that follows, up to the limit, cell by cell in the same
\* way; and the engine's refresh always ends back at the top of the loop.
C14_FormatFaultContained ==
    /\ []((\A t \in Threads : pc[t] # "usl_tail")
            => /\ Len(state_.channels) = NumChannels
               /\ \A ch \in 1..NumChannels :
                     state_.channels[ch].line =
                        IF <<state_.pattern, state_.row, ch - 1>> \in song.bad_cells
                        THEN Placeholder
                        ELSE <<state_.pattern, state_.row, ch - 1>>
               /\ Len(state_.preview_rows) =
                     Min(PREVIEW_LIMIT, RowsAfter(state_.order, state_.row))
               /\ \A i \in DOMAIN state_.preview_rows :
                     LET pr == state_.preview_rows[i]
                     IN  /\ RowsBefore(pr.order) + pr.row
                               = RowsBefore(state_.order) + state_.row + i
                         /\ \A ch \in 1..NumChannels :
                               pr.channels[ch] =
                                  IF <<pr.pattern, pr.row, ch - 1>> \in song.bad_cells
                                  THEN Placeholder
                                  ELSE <<pr.pattern, pr.row, ch - 1>>)
    /\ [][pc["E"] = "usl_tail" /\ pc'["E"] # "usl_tail" => pc'["E"] = "pl_top"]_vars

\* the engine about to render the next buffer after a refresh in which the
\* cell of the first channel could not be formatted and that of the second
\* could, with a preview row holding a placeholder as well
C14_Witness ==
    /\ pc["E"] = "pl_render" /\ state_.position_seconds > 0
    /\ <<state_.pattern, state_.row, 0>> \in song.bad_cells
    /\ <<state_.pattern, state_.row, 1>> \notin song.bad_cells
    /\ state_.channels[1].line = Placeholder
    /\ state_.channels[2].line = <<state_.pattern, state_.row, 1>>
    /\ \E i \in DOMAIN state_.preview_rows :
          state_.preview_rows[i].channels[2] = Placeholder

---------------------------------------------------------------------------
(* Navigation *)

\* C15 as stated: for every delta, jump_to_order(delta) puts the decoder at
\* row 0 of the order clamp(current_order + delta, 0, total_orders - 1).
C15_JumpOrderClamped ==
    [][(pc["U"] = "idle" /\ pc'["U"] = "jump_lock")
          => /\ module_'.order = Clamp(module_.order + ctl'.arg, 0, get_num_orders - 1)
             /\ module_'.order \in 0..(get_num_orders - 1)
             /\ module_'.row = 0]_vars

RECURSIVE PlayRowsFrom(_)
PlayRowsFrom(o) ==
    IF o >= get_num_orders THEN << >>
    ELSE [r \in 1..OrderRows(o) |-> <<o, r - 1>>] \o PlayRowsFrom(o + 1)
PlayRows == PlayRowsFrom(0)

\* the place in PlayRows of (o,r), or for an order without rows of the first
\* row that follows it
PlayIndex(o, r) == RowsBefore(o) + (IF OrderRows(o) > 0 THEN r ELSE 0) + 1

\* where a walk that passes the last order ends
LastOrderLastRow == <<get_num_orders - 1, Max(0, OrderRows(get_num_orders - 1) - 1)>>

\* n rows on from (o,r) in play order
ForwardInPlayOrder(o, r, n) ==
    IF PlayIndex(o, r) + n <= Len(PlayRows)
    THEN PlayRows[PlayIndex(o, r) + n]
    ELSE LastOrderLastRow

\* the position after the row at: the next row of its pattern, or row 0 of
\* the next order whatever that order plays
PositionAfter(at) ==
    IF at[2] + 1 < OrderRows(at[1]) THEN <<at[1], at[2] + 1>>
    ELSE IF at[1] + 1 < get_num_orders THEN <<at[1] + 1, 0>>
    ELSE LastOrderLastRow

\* C17 as stated: jump_rows(n), n > 0, puts the decoder n rows on in play
\* order, past every order without rows, and at the last row of the last
\* order if the song ends first.
C17_ForwardInPlayOrder ==
    [][(pc["U"] = "jr_check" /\ ctl.arg > 0 /\ pc'["U"] = "jump_lock")
          => <<module_'.order, module_'.row>>
                = ForwardInPlayOrder(module_.order, module_.row, ctl.arg)]_vars

\* C17: jump_rows(n), n > 0, consumes n rows in play order, orders without
\* rows costing nothing, and puts the decoder right after the last row it
\* consumed: at the next row of that pattern, or at row 0 of the next order,
\* also when that order has no rows; it ends at the last row of the last
\* order when fewer than n rows are left or the last one consumed is the
\* song's last.
C17_ForwardStopsAfterLastConsumed ==
    [][(pc["U"] = "jr_check" /\ ctl.arg > 0 /\ pc'["U"] = "jump_lock")
          => LET last == PlayIndex(module_.order, module_.row) + ctl.arg - 1
             IN  <<module_'.order, module_'.row>> =
                    IF last <= Len(PlayRows) THEN PositionAfter(PlayRows[last])
                    ELSE LastOrderLastRow]_vars

\* a forward jump about to be made from a row whose pattern ends with the
\* jump's last row and is followed by an order without rows and then by one
\* with rows
C17_Witness ==
    /\ pc["U"] = "jr_check" /\ ctl.arg = 2
    /\ module_.order = 0 /\ module_.row = 0 /\ get_num_orders >= 3
    /\ OrderRows(0) = 2 /\ OrderRows(1) = 0 /\ OrderRows(2) > 0

\* C18: jump_rows(-n), n > 0, puts the decoder n rows back in play order:
\* the rows of the current pattern come first, then the last row of the
\* order before, orders without rows costing nothing; it ends at (0,0) when
\* fewer than n rows lie before the current one.
C18_BackwardInPlayOrder ==
    [][(pc["U"] = "jr_check" /\ ctl.arg \in (0 - IntMax)..(0 - 1) /\ pc'["U"] = "jump_lock")
          => LET to == PlayIndex(module_.order, module_.row) + ctl.arg
             IN  <<module_'.order, module_'.row>> =
                    IF to >= 1 THEN PlayRows[to] ELSE <<0, 0>>]_vars

\* a backward jump of two rows about to be made from row 0 of an order that
\* follows an order without rows and, before that, a pattern of two rows
C18_Witness ==
    /\ pc["U"] = "jr_check" /\ ctl.arg = 0 - 2
    /\ module_.order = 2 /\ module_.row = 0
    /\ OrderRows(2) > 0 /\ OrderRows(1) = 0 /\ OrderRows(0) = 2

\* the orders from..to all play patterns with rows
NoEmptyOrder(from, to) == \A o \in from..to : OrderRows(o) > 0

\* where jump_rows(n) followed at once by jump_rows(-n) ends, from (o,r)
ThereAndBack(o, r, n) ==
    LET there == JumpRowsTarget([order |-> o, row |-> r], n)
    IN  JumpRowsTarget([order |-> there[1], row |-> there[2]], 0 - n)

\* C19 as stated: jump_rows(n) followed at once by jump_rows(-n) ends at the
\* starting row whenever no walk can cross an order without rows, even in a
\* song all of whose orders have rows.
C19_RoundTrip ==
    [](pc["U"] = "jr_check" /\ ctl.arg > 0
          => (NoEmptyOrder(0, get_num_orders - 1)
                => ThereAndBack(module_.order, module_.row, ctl.arg)
                      = <<module_.order, module_.row>>))

\* C19: from a row of the song, jump_rows(n) followed at once by
\* jump_rows(-n) ends at the starting row whenever every order from the
\* starting one to the one the forward jump lands on has rows and at least
\* n rows follow the starting row, so that the forward jump is not cut
\* short at the end of the song.
C19_RoundTripInsideSong ==
    [](pc["U"] = "jr_check" /\ ctl.arg > 0
          => LET there == JumpRowsTarget(module_, ctl.arg)
             IN  (/\ NoEmptyOrder(module_.order, there[1])
                  /\ PlayIndex(module_.order, module_.row) + ctl.arg <= Len(PlayRows))
                    => ThereAndBack(module_.order, module_.row, ctl.arg)
                          = <<module_.order, module_.row>>)

\* a forward jump of three rows about to be made from the last row of a
\* pattern, over a whole pattern of two rows, onto a third pattern
C19_Witness ==
    /\ pc["U"] = "jr_check" /\ ctl.arg = 3
    /\ module_.order = 0 /\ module_.row = 1
    /\ OrderRows(0) = 2 /\ OrderRows(1) = 2 /\ OrderRows(2) > 0
    /\ JumpRowsTarget(module_, 3) = <<2, 0>>

\* C20: jump_rows(0) returns at once: the decoder's order and row, the
\* finished flag and every other flag, the published state, the locks and
\* the analysis buffers are as they were, and the caller is back in its
\* idle position without having taken the path of the seek, the clearing
\* of finished and the refresh.
C20_JumpRowsZeroNoop ==
    [][(pc["U"] = "jr_check" /\ ctl.arg = 0 /\ pc'["U"] # "jr_check")
          => /\ pc'["U"] = "idle"
             /\ UNCHANGED <<decVars, devVars, flagVars, knobVars, lockVars,
                            state_, audio_effects_, unitVars, begun_after_stop, vizVars, eng, exp>>]_vars

\* jump_rows(0) about to return on a song that has ended, with finished set
\* in the engine and in the published state
C20_Witness ==
    /\ pc["U"] = "jr_check" /\ ctl.arg = 0
    /\ finished_ /\ state_.finished /\ module_.ended

\* C21: every snapshot a caller holds has one channel entry per channel of
\* the module, kSpectrumBands spectrum bands and kWaveformSize samples in
\* each of waveform_left and waveform_right.
C21_SnapshotSizes ==
    pc["U"] = "sn_return"
       => /\ Len(ctl.snap.channels) = NumChannels
          /\ ctl.snap.spectrum_bands.size = kSpectrumBands
          /\ ctl.snap.waveform_left.size = kWaveformSize
          /\ ctl.snap.waveform_right.size = kWaveformSize

\* the ring an index belongs to
RingCapacity(effect) ==
    CASE effect = "Echo"    -> kEchoBufferSize
      [] effect = "Reverb"  -> kReverbBufferSize
      [] effect = "Flanger" -> kFlangerBufferSize
      [] effect = "Chorus"  -> kChorusBufferSize

\* C22: after any calls of apply_effects, with any kinds, frame counts and
\* sample rates, the write cursor of each of the Echo, Reverb, Flanger and
\* Chorus rings is in [0, capacity), and so was every index at which the
\* last call read a ring.
C22_RingIndicesInRange ==
    /\ fx.echo_write_pos_ \in 0..(kEchoBufferSize - 1)
    /\ fx.reverb_write_pos_ \in 0..(kReverbBufferSize - 1)
    /\ fx.flanger_write_pos_ \in 0..(kFlangerBufferSize - 1)
    /\ fx.chorus_write_pos_ \in 0..(kChorusBufferSize - 1)
    /\ \A rd \in fx_call.reads : rd[2] \in 0..(RingCapacity(rd[1]) - 1)

\* a second Echo call has taken the cursor past the end of the ring and
\* round to a later element, at a sample rate whose delay is longer than
\* the ring
C22_Witness ==
    /\ fx_call.calls = 2 /\ fx_call.effect = "Echo" /\ fx_call.frame_count = 3
    /\ fx.sample_rate_ = 1000
    /\ fx.echo_write_pos_ = (2 * 3) % kEchoBufferSize
    /\ fx_call.reads # {}

\* the members of AudioEffects that belong to one effect
EffectState(f, effect) ==
    CASE effect = "BassBoost" -> <<f.bass_lp_left_, f.bass_lp_right_>>
      [] effect = "Echo"      -> <<f.echo_buffer_left_, f.echo_buffer_right_,
                                   f.echo_write_pos_>>
      [] effect = "Reverb"    -> <<f.reverb_buffer_left_, f.reverb_buffer_right_,
                                   f.reverb_write_pos_>>
      [] effect = "Flanger"   -> <<f.flanger_buffer_left_, f.flanger_buffer_right_,
                                   f.flanger_write_pos_, f.flanger_lfo_phase_>>
      [] effect = "Phaser"    -> <<f.phaser_state_left_, f.phaser_state_right_,
                                   f.phaser_lfo_phase_>>
      [] effect = "Chorus"    -> <<f.chorus_buffer_left_, f.chorus_buffer_right_,
                                   f.chorus_write_pos_, f.chorus_lfo_phase1_,
                                   f.chorus_lfo_phase2_>>

\* C23: a call of apply_effects with kind K leaves the state of each of the
\* other five effects (ring contents, write cursor, LFO phases, filter
\* taps) and the sample rate exactly as they were, so that an effect used
\* again finds the state its own last call left.
C23_OnlySelectedEffectAdvances ==
    [][fx_call'.calls = fx_call.calls + 1
          => /\ fx'.sample_rate_ = fx.sample_rate_
             /\ \A k \in AudioEffect \ {"None", fx_call'.effect} :
                   EffectState(fx', k) = EffectState(fx, k)]_vars

\* Echo used for a second time after a Reverb call in between: its cursor
\* is two frames on, the Reverb cursor one
C23_Witness ==
    /\ fx_call.calls = 3 /\ fx_call.effect = "Echo" /\ fx_call.frame_count = 1
    /\ fx.echo_write_pos_ = 2 /\ fx.reverb_write_pos_ = 1
    /\ EffectState(fx, "Echo") # EffectState(AudioEffects(fx.sample_rate_), "Echo")
    /\ \A k \in {"BassBoost", "Flanger", "Phaser", "Chorus"} :
          EffectState(fx, k) = EffectState(AudioEffects(fx.sample_rate_), k)

\* the AudioEffects objects that up to the given number of calls leave
RECURSIVE EffectStatesAfter(_)
EffectStatesAfter(calls) ==
    IF calls = 0
    THEN {AudioEffects(sample_rate) : sample_rate \in SampleRates}
    ELSE LET prev == EffectStatesAfter(calls - 1)
         IN  prev \cup {ApplyEffects(f, FilledBuffer(frame, n), n, k).fx :
                           f \in prev, k \in AudioEffect \ {"None"},
                           n \in FrameCounts \ {0}, frame \in InputFrames}

\* the positions of playback_loop from the effect stage to the end of the
\* iteration
AfterVolume ==
    {"pl_effects", "pl_spectrum", "pl_spectrum_publish", "pl_waveform",
     "pl_waveform_publish", "pl_write", "pl_refresh", "usl_mlock", "usl_tail"}

\* C24: apply_effects with kind None returns the buffer sample for sample
\* and the AudioEffects object as it was, whatever calls the object has
\* seen before; and in an engine iteration that read None as the selected
\* effect, from the volume stage to the end of the iteration the buffer
\* and the effect state do not change.
C24_NoneIsNoOp ==
    /\ \A f \in EffectStatesAfter(MaxCalls - 1) :
          \A n \in FrameCounts, frame \in InputFrames :
             ApplyEffects(f, FilledBuffer(frame, n), n, "None")
                = [fx |-> f, buffer |-> FilledBuffer(frame, n), reads |-> {}]
    /\ [][pc["E"] \in AfterVolume /\ pc'["E"] \in AfterVolume
                                  /\ eng.current_effect = "None"
             => /\ eng'.buffer = eng.buffer
                /\ audio_effects_' = audio_effects_]_vars

\* the engine about to analyse a buffer of an iteration that read None,
\* after an iteration that ran Echo
C24_Witness ==
    /\ pc["E"] = "pl_spectrum" /\ eng.current_effect = "None"
    /\ eng.frames_rendered > 0 /\ eng.buffer = VolOne
    /\ "Echo" \in audio_effects_

RingInOrder(ring, pos) ==
    [k \in 1..WaveRing |-> ring[((pos % WaveRing) + k - 1) % WaveRing]]

\* the last WaveRing elements of a sequence
MostRecent(seq) == SubSeq(seq, Len(seq) - WaveRing + 1, Len(seq))

\* C27 as stated: the ring has its fixed length, and once at least that many
\* decimated frames of the input stream have been passed to update_waveform
\* it holds, in write order, the most recent of them.
C27_RingHoldsMostRecentFed ==
    /\ DOMAIN wave.left = 0..(WaveRing - 1) /\ DOMAIN wave.right = 0..(WaveRing - 1)
    /\ wave.write_pos \in 0..WaveRing
    /\ Len(wave.fed) >= WaveRing
          => RingInOrder(wave.left, wave.write_pos) = MostRecent(wave.fed)

\* C27: the ring has its fixed length, and once at least that many frames
\* have been written to it, it holds, in write order, the most recent
\* frames written, left and right alike; a call writes the decimated frames
\* of its buffer only until the cursor reaches the end of the ring.
C27_RingHoldsMostRecentWritten ==
    /\ DOMAIN wave.left = 0..(WaveRing - 1) /\ DOMAIN wave.right = 0..(WaveRing - 1)
    /\ wave.write_pos \in 0..WaveRing
    /\ Len(wave.written) >= WaveRing
          => /\ RingInOrder(wave.left, wave.write_pos) = MostRecent(wave.written)
             /\ \A i \in 0..(WaveRing - 1) : wave.right[i] = 0 - wave.left[i]

\* a ring partly overwritten by a second buffer shorter than the ring
C27_Witness ==
    /\ wave.calls = 2 /\ Len(wave.written) = WaveRing + 1
    /\ wave.write_pos = 1 /\ wave.left[0] > wave.left[1]

\* the number a field of digits stands for
DigitValue(c) == CHOOSE d \in 0..15 : DigitChars[d + 1] = c
RECURSIVE FieldValue(_, _)
FieldValue(field, base) ==
    IF field = << >> THEN 0
    ELSE FieldValue(SubSeq(field, 1, Len(field) - 1), base) * base
            + DigitValue(field[Len(field)])

IsNumber(field, base) ==
    \A i \in 1..Len(field) : \E d \in 0..(base - 1) : DigitChars[d + 1] = field[i]

\* the four fields of a formatted event, cut at its single spaces
RECURSIVE SplitAtSpaces(_)
SplitAtSpaces(text) ==
    IF \A i \in 1..Len(text) : text[i] # " " THEN <<text>>
    ELSE LET i == CHOOSE i \in 1..Len(text) :
                     text[i] = " " /\ \A j \in 1..(i - 1) : text[j] # " "
         IN  <<SubSeq(text, 1, i - 1)>> \o SplitAtSpaces(SubSeq(text, i + 1, Len(text)))

\* C28: the text of an event is four fields separated by single spaces.
\* The note field is "---" for an absent or negative note and otherwise the
\* name of note mod 12 followed by the octave note div 12; the instrument
\* field is ".." for an absent or non-positive instrument and otherwise the
\* instrument in two decimal digits; the volume field is ".." for an absent
\* or negative volume and otherwise the volume, at most 64, in two decimal
\* digits; the effect field is "..." when effect and parameter are both
\* absent, and when both are present the effect in upper-case hex followed
\* by the parameter in two hex digits.
C28_NoteEventText ==
    fmt.text # << >>
       => LET e == fmt.event
              f == SplitAtSpaces(fmt.text)
          IN  /\ Len(f) = 4
              /\ IF ~e.note.present \/ e.note.value < 0
                  THEN f[1] = <<"-", "-", "-">>
                  ELSE /\ SubSeq(f[1], 1, 2) = NOTE_NAMES[(e.note.value % 12) + 1]
                       /\ IsNumber(SubSeq(f[1], 3, Len(f[1])), 10)
                       /\ FieldValue(SubSeq(f[1], 3, Len(f[1])), 10)
                             = e.note.value \div 12
              /\ IF ~e.instrument.present \/ e.instrument.value <= 0
                  THEN f[2] = <<".", ".">>
                  ELSE /\ Len(f[2]) = 2 /\ IsNumber(f[2], 10)
                       /\ FieldValue(f[2], 10) = e.instrument.value
              /\ IF ~e.volume.present \/ e.volume.value < 0
                  THEN f[3] = <<".", ".">>
                  ELSE /\ Len(f[3]) = 2 /\ IsNumber(f[3], 10)
                       /\ FieldValue(f[3], 10) = Min(e.volume.value, 64)
              /\ (~e.effect.present /\ ~e.effect_param.present
                     => f[4] = <<".", ".", ".">>)
              /\ (e.effect.present /\ e.effect_param.present
                     => LET n == Len(f[4])
                        IN  /\ n >= 3 /\ IsNumber(f[4], 16)
                            /\ FieldValue(SubSeq(f[4], 1, n - 2), 16) = e.effect.value
                            /\ FieldValue(SubSeq(f[4], n - 1, n), 16)
                                  = e.effect_param.value)

---------------------------------------------------------------------------
(* C29: stop() and a buffer in progress *)

\* the stages of a buffer once the decoder has rendered it, lines 472-501,
\* each with the stages that can follow it
NextStage(label) ==
    CASE label = "pl_volume"           -> {"pl_effects", "pl_spectrum"}
      [] label = "pl_effects"          -> {"pl_spectrum"}
      [] label = "pl_spectrum"         -> {"pl_spectrum_publish", "pl_waveform"}
      [] label = "pl_spectrum_publish" -> {"pl_waveform"}
      [] label = "pl_waveform"         -> {"pl_waveform_publish"}
      [] label = "pl_waveform_publish" -> {"pl_write"}
      [] label = "pl_write"            -> {"pl_refresh"}
      [] label = "pl_refresh"          -> {"usl_mlock"}
      [] label = "usl_mlock"           -> {"usl_tail"}
      [] label = "usl_tail"            -> {"pl_top"}
      [] OTHER                         -> {}
BegunBuffer ==
    {"pl_volume", "pl_effects", "pl_spectrum", "pl_spectrum_publish", "pl_waveform",
     "pl_waveform_publish", "pl_write", "pl_refresh", "usl_mlock", "usl_tail"}

\* C29: once stop() has set stop_requested_ the playback thread makes at most
\* one more render before it leaves playback_loop, and every step it takes
\* on a rendered buffer leads to the buffer's next stage, whatever the stop
\* and pause flags are: the volume and the effect, the spectrum and the
\* waveform, the device write, the refresh.  The one way out of a begun
\* buffer is a device write that returned an error.
C29_StopCarriesBufferThrough ==
    /\ [](begun_after_stop <= 1)
    /\ [][pc["E"] \in BegunBuffer /\ pc'["E"] # pc["E"]
            => \/ pc'["E"] \in NextStage(pc["E"])
               \/ /\ pc["E"] = "pl_write" /\ pc'["E"] = "exited"
                  /\ eng'.err # "paNoError"]_vars
\* a buffer rendered after stop() set its flag, with an effect applied to it,
\* has been written to the device and is in its refresh
C29_Witness ==
    /\ stop_requested_ /\ begun_after_stop = 1
    /\ pc["E"] = "usl_tail" /\ pc["U"] = "sp_join"
    /\ eng.current_effect = "Echo" /\ "Echo" \in audio_effects_
    /\ eng.err = "paNoError"
---------------------------------------------------------------------------
(* C30: the order of the stages of one iteration *)

\* a step of the playback thread
EngineStep == pc'["E"] # pc["E"] /\ pc["E"] \notin {"pl_blocked", "none"}

\* the stages in their order: the render comes first and is the only step of
\* the iteration that moves the decoder, the volume is applied to what the
\* render left, the effect to what the volume left, then the spectrum and
\* the waveform, then the write, and the refresh only after a write that
\* returned paNoError
StagesInOrder ==
    /\ pc'["E"] = "pl_volume" => pc["E"] = "pl_render" /\ eng'.frames_rendered > 0
    /\ pc["E"] = "pl_render" => pc'["E"] \in {"pl_volume", "pl_finish"}
    /\ pc["E"] \in BegunBuffer =>
          /\ module_' = module_
          /\ pc'["E"] \in NextStage(pc["E"]) \cup {"exited"}
    /\ pc["E"] = "pl_volume" =>
          /\ eng'.buffer = ScaleVolume(eng.buffer, volume_)
          /\ pc'["E"] = (IF current_effect_ # "None" THEN "pl_effects" ELSE "pl_spectrum")
    /\ pc["E"] = "pl_effects" =>
          audio_effects_' = apply_effects(audio_effects_, eng.current_effect)
    /\ pc'["E"] = "pl_refresh" => pc["E"] = "pl_write" /\ eng'.err = "paNoError"
    /\ pc'["E"] = "exited" /\ pc["E"] \in BegunBuffer =>
          pc["E"] = "pl_write" /\ eng'.err # "paNoError"

\* C30: an iteration that renders makes one decoder render, then scales by
\* the volume, then applies the selected effect, then captures the spectrum
\* and the waveform, then writes to the device, then refreshes the
\* TransportState once, in that order and the refresh only after a write
\* that succeeded; at the end of that refresh the published order and row
\* are the decoder's and the published finished is false.
C30_IterationInOrder ==
    [][EngineStep =>
          /\ StagesInOrder
          /\ pc["E"] = "usl_tail" =>
                /\ state_'.order = module_.order /\ state_'.row = module_.row
                /\ ~state_'.finished]_vars

\* the same, the published finished being the flag finished_
C30_IterationPublishesFlag ==
    [][EngineStep =>
          /\ StagesInOrder
          /\ pc["E"] = "usl_tail" =>
                /\ state_'.order = module_.order /\ state_'.row = module_.row
                /\ state_'.finished = finished_]_vars
---------------------------------------------------------------------------
(* C31: the device is marked running whenever the loop renders and writes *)

\* the labels of an iteration that found stream_running_ set, from the
\* render to the device write
RenderToWrite == {"pl_render", "pl_finish"} \cup (BegunBuffer \ {"pl_refresh", "usl_mlock", "usl_tail"})

\* C31: the playback thread renders and writes to the device only with
\* stream_running_ set; an iteration that read stream_running_ clear calls
\* Pa_StartStream, sets the flag and goes back to the top of the loop, or
\* leaves the loop on an error, and the decoder is not touched by it.
C31_NoWriteWhileInactive ==
    /\ [](pc["E"] \in RenderToWrite => stream_running_)
    /\ [][EngineStep =>
             /\ pc["E"] = "pl_need" =>
                   pc'["E"] = (IF stream_running_ THEN "pl_render" ELSE "pl_start_stream")
             /\ pc["E"] = "pl_start_stream" =>
                   pc'["E"] \in {"pl_started", "exited"} /\ module_' = module_
             /\ pc["E"] = "pl_started" =>
                   pc'["E"] = "pl_top" /\ stream_running_' /\ module_' = module_]_vars
\* after a pause and a resume in the middle of the song the loop has found
\* the device stopped and has restarted it
C31_Witness ==
    /\ pc["E"] = "pl_started" /\ ~stream_running_ /\ stream_active
    /\ ~paused_ /\ ~stop_requested_
    /\ module_.row > 0
---------------------------------------------------------------------------
(* C32: the order in which the four mutexes are taken *)

Mutexes == {"spectrum", "waveform", "state", "module"}
Holder(m) ==
    CASE m = "spectrum" -> spectrum_mutex_
      [] m = "waveform" -> waveform_mutex_
      [] m = "state"    -> state_mutex_
      [] m = "module"   -> module_mutex_
Held(t) == {m \in Mutexes : Holder(m) = t}
\* spectrum-or-waveform, then state, then decoder
Rank(m) == CASE m = "spectrum" -> 1 [] m = "waveform" -> 1 [] m = "state" -> 2
             [] m = "module" -> 3

\* the mutex the next step of a thread locks, by its place in the code
Requested(t) ==
    LET l == pc[t]
    IN  IF l = "usl_mlock" THEN "module"
        ELSE IF t = "E" /\ l \in {"pl_top", "pl_pause", "pl_zero", "pl_wait", "pl_need",
                                  "pl_started", "pl_finish", "pl_volume",
                                  "pl_spectrum_publish", "pl_waveform_publish",
                                  "pl_refresh"} THEN "state"
        ELSE IF t = "E" /\ l = "pl_render" THEN "module"
        ELSE IF t = "E" /\ l = "pl_spectrum" THEN "spectrum"
        ELSE IF t = "E" /\ l = "pl_waveform" THEN "waveform"
        ELSE IF t = "U" /\ l \in {"sp_lock", "jump_lock"} THEN "state"
        ELSE IF t = "U" /\ l = "jr_check" /\ ctl.arg # 0 THEN "module"
        ELSE IF t = "X" /\ l \in {"ex_save", "ex_read", "ex_restore"} THEN "module"
        ELSE IF t = "X" /\ l = "ex_resume" THEN "state"
        ELSE "none"
\* t waits for a mutex that u holds
WaitsFor(t, u) == t # u /\ Requested(t) # "none" /\ Holder(Requested(t)) = u

---------------------------------------------------------------------------
(* C33: what "not finished, not paused" says about the playback thread *)

\* C33: while the player is started (start() has returned and no stop() is
\* under way), the pause flag is clear and the published finished is false,
\* the playback thread has not left playback_loop.
C33_NotFinishedMeansPlaying ==
    running_ /\ pc["U"] \notin {"sp_check", "sp_lock", "sp_notify", "sp_join", "sp_stream"}
             /\ ~paused_ /\ ~state_.finished
        => pc["E"] # "exited"
---------------------------------------------------------------------------
(* C34: the one AudioEffects object and its two users *)

\* a thread is about to run, or is running, apply_effects on audio_effects_
InApplyEffects(t) ==
    \/ t = "E" /\ pc["E"] = "pl_effects" /\ eng.current_effect # "None"
    \/ t = "X" /\ pc["X"] = "ex_process" /\ current_effect_ # "None"

\* C34: the playback thread and the exporting thread are never inside
\* apply_effects on audio_effects_ at the same time.
C34_EffectsOneThread == ~(InApplyEffects("E") /\ InApplyEffects("X"))
---------------------------------------------------------------------------
(* C35: the walks of jump_rows end, and end inside the song *)

\* the number of times the loop of lines 310-332 runs
RECURSIVE ForwardIterations(_, _, _)
ForwardIterations(ord, row, remaining) ==
    IF remaining > 0 /\ ord < get_num_orders
    THEN IF get_order_pattern(ord) < 0 \/ OrderRows(ord) <= 0
         THEN 1 + ForwardIterations(ord + 1, 0, remaining)
         ELSE LET rows_left == OrderRows(ord) - row - 1
              IN  IF remaining <= rows_left THEN 1
                  ELSE 1 + ForwardIterations(ord + 1, 0, remaining - (rows_left + 1))
    ELSE 0

\* the number of times the loop of lines 343-366 runs
RECURSIVE BackwardIterations(_, _, _)
BackwardIterations(ord, row, remaining) ==
    IF remaining > 0 /\ ord >= 0
    THEN LET step == IF row > 0 THEN Min(row, remaining) ELSE 0
             n1   == remaining - step
         IN  IF row > 0 /\ n1 = 0 THEN 1
             ELSE IF ord - 1 < 0 THEN 1
             ELSE IF OrderRows(ord - 1) <= 0
                  THEN 1 + BackwardIterations(ord - 1, 0, n1)
                  ELSE 1 + BackwardIterations(ord - 1, OrderRows(ord - 1) - 1, n1 - 1)
    ELSE 0

\* a position inside the song: an order of the order list and a row of its
\* pattern, row 0 for an order without rows
InsideSong(o, r) ==
    /\ 0 <= o /\ o <= get_num_orders - 1
    /\ 0 <= r /\ r <= Max(0, OrderRows(o) - 1)

\* C35: for every layout, every position of the decoder and every delta
\* other than 0, the walk of jump_rows ends after at most one turn of its
\* loop per order between the position and the end it walks to, and the
\* order and row given to set_position_order_row are inside the song.
C35_JumpRowsTargetInsideSong ==
    [][(pc["U"] = "jr_check" /\ ctl.arg # 0 /\ pc'["U"] = "jump_lock")
          => /\ InsideSong(module_.order, module_.row)
             /\ InsideSong(module_'.order, module_'.row)
             /\ ctl.arg > 0 =>
                   ForwardIterations(module_.order, module_.row, ctl.arg)
                      <= get_num_orders - module_.order
             /\ ctl.arg < 0 =>
                   \A remaining \in Negate(ctl.arg) :
                      BackwardIterations(module_.order, module_.row, remaining)
                         <= module_.order + 1]_vars
\* in a song of four orders, the second and third without rows, a backward
\* jump from the last order has walked over both to the first
C35_Witness ==
    /\ get_num_orders = 4 /\ OrderRows(0) = 2 /\ OrderRows(1) <= 0 /\ OrderRows(2) <= 0
    /\ get_order_pattern(1) < 0 /\ OrderRows(3) = 1
    /\ pc["U"] = "jump_lock" /\ module_.order = 0 /\ module_.row = 1
    /\ state_.order = 3
---------------------------------------------------------------------------
(* C36: the chunk buffer of an export *)

\* C36: for every positive options.channels, a render of the export loop
\* writes at most chunk_size = 4096 * channels samples into the chunk buffer,
\* the loop makes finitely many renders (each render but the last adds at
\* least one sample, so there are at most total_samples of them) and at
\* most total_samples samples are accumulated.
C36_ChunkHoldsRender ==
    /\ chunk.written <= chunk_size(chunk.channels)
    /\ chunk.samples_rendered <= chunk.total_samples
    /\ chunk.renders <= Max(1, chunk.total_samples)
---------------------------------------------------------------------------
(* C37: the decimation of update_waveform *)

\* the frames one call wrote to the ring, in order
WrittenByCall == SubSeq(wave'.written, Len(wave.written) + 1, Len(wave'.written))
\* the interleaved samples passed to the call
SamplesOfCall == 2 * (wave'.frames - wave.frames)

\* C37: a call with a buffer of S interleaved samples writes the stereo
\* pairs 0, d, 2d, ... of the buffer, d = max(1, (S / 2) / (4 * ring length))
\* in integer division.
C37_DecimationOfPairs ==
    [][wave'.calls = wave.calls + 1
          => LET d == Max(1, (SamplesOfCall \div 2) \div (4 * WaveRing))
             IN  \A k \in 1..Len(WrittenByCall) :
                    WrittenByCall[k] = wave.frames + 1 + (k - 1) * d]_vars
---------------------------------------------------------------------------
(* C38: where one update_waveform call writes, and where it stops *)

\* the ring index of each write of one call, in order
SlotsOfCall == SubSeq(wave'.slots, Len(wave.slots) + 1, Len(wave'.slots))
\* the stereo pairs the decimation of line 726 selects from the call's buffer
PairsOfCall ==
    Len(DecimatedFrames(wave.frames + 1, SamplesOfCall,
                        Max(1, SamplesOfCall \div (WaveRing * 4))))

\* C38: every write of a call is at an index of the ring; the first is at
\* the cursor, or at 0 when the cursor stood at the end of the ring, and the
\* following ones at the next indices; the pass ends with the write at the
\* last index, so a call writes at most a ring of pairs and leaves pairs
\* unwritten only when it ended there.
C38_FillPassStopsAtRingEnd ==
    /\ [](\A k \in 1..Len(wave.slots) : wave.slots[k] \in 0..(WaveRing - 1))
    /\ [][wave'.calls = wave.calls + 1
             => /\ Len(SlotsOfCall) <= WaveRing
                /\ \A k \in 1..Len(SlotsOfCall) :
                      SlotsOfCall[k] = (wave.write_pos % WaveRing) + k - 1
                /\ Len(SlotsOfCall) < PairsOfCall
                      => /\ wave'.write_pos = WaveRing
                         /\ SlotsOfCall[Len(SlotsOfCall)] = WaveRing - 1]_vars
\* a first call left half of its pairs unwritten at the end of the ring, a
\* second call has wrapped the cursor and written at index 0
C38_Witness ==
    /\ wave.calls = 2 /\ wave.frames = 5
    /\ wave.slots = <<0, 1, 0>> /\ wave.written = <<1, 2, 5>>
    /\ wave.write_pos = 1

\* ---------------------------------------------------------------------
\* lines 652-659: the frames of this call fill the window to its end
WindowCompleted == fft_write_pos_ + eng.frames_rendered >= kFFTSize

\* C39: after every update_spectrum call the write cursor is inside
\* [0, kFFTSize), and it is 0 right after a call that completed a window;
\* the bands of the engine and the published ones change only in a call
\* that completed a window of kFFTSize mono samples, and every other call
\* leaves both as they were and moves the cursor by the frames it was given.
C39_BandsChangeOnFullWindow ==
    /\ [](fft_write_pos_ \in 0..(kFFTSize - 1))
    /\ [][pc["E"] = "pl_spectrum_publish" /\ pc'["E"] = "pl_waveform"
             => fft_write_pos_' = 0 /\ state_'.spectrum_bands = spectrum_bands_]_vars
    /\ [][pc["E"] = "pl_spectrum" /\ pc'["E"] = "pl_waveform"
             => /\ ~WindowCompleted
                /\ fft_write_pos_' = fft_write_pos_ + eng.frames_rendered
                /\ spectrum_bands_' = spectrum_bands_
                /\ state_'.spectrum_bands = state_.spectrum_bands]_vars
    /\ [][spectrum_bands_' # spectrum_bands_
             => pc["E"] = "pl_spectrum" /\ WindowCompleted /\ fft_write_pos_' = 0]_vars
    /\ [][state_'.spectrum_bands # state_.spectrum_bands
             => pc["E"] = "pl_spectrum_publish" /\ pc'["E"] = "pl_waveform"]_vars

\* a call after the first full window: half a window gathered again, the
\* bands of the first window still in place
C39_Witness ==
    /\ pc["E"] = "pl_waveform"
    /\ fft_write_pos_ = buffer_size_
    /\ spectrum_bands_.level = 1
    /\ state_.spectrum_bands.level = 1


\* ---------------------------------------------------------------------
\* line 66: delay_time, a quarter of a second, in frames of the object's rate
ConfiguredDelay == fx.sample_rate_ \div 4

\* the first call on a silent echo held one nonzero frame for the delay,
\* and this step is a second call, of silence
HeldThenSilent ==
    /\ fx_call.calls = 1 /\ fx_call.effect = "Echo"
    /\ fx_call.frame_count = ConfiguredDelay
    /\ fx_call.input[1] # 0 /\ fx_call.input[2] # 0
    /\ fx_call'.calls = 2 /\ fx_call'.frame_count > 0
    /\ \A k \in DOMAIN fx_call'.input : fx_call'.input[k] = 0

\* lines 79-80 and 88-89 with nothing delayed: the dry signal
DryOnly(call) ==
    \A k \in DOMAIN call.output : call.output[k] = ClampSample(Pct(call.input[k], 70))

\* the sample of the held frame that frame i of the silent call repeats
HeldSample(k) == ClampSample(fx_call.input[2 - (k % 2)])

\* frame i of the silent call is of the first repeat / of the second
FirstRepeat(k)  == (k + 1) \div 2 <= ConfiguredDelay
SecondRepeat(k) == ~FirstRepeat(k) /\ (k + 1) \div 2 <= 2 * ConfiguredDelay

\* C40 as stated: from a silent echo, an input held at a nonzero frame for
\* delay_samples frames and then silent gives the dry signal alone before
\* frame delay_samples, and from frame delay_samples on the held frame
\* scaled by feedback and by mix.
C40_DelayedCopyByFeedbackAndMix ==
    [][HeldThenSilent
          => /\ DryOnly(fx_call)
             /\ \A k \in DOMAIN fx_call'.output :
                   FirstRepeat(k)
                      => fx_call'.output[k] = Pct(Pct(HeldSample(k), 40), 30)]_vars

\* C40, amended: from a silent echo, an input held at a nonzero frame for
\* delay_samples frames and then silent gives the dry signal alone (the
\* input scaled by 1 - mix) before frame delay_samples; from frame
\* delay_samples on the output is the held frame scaled by mix alone, and
\* from frame 2 * delay_samples on the held frame scaled by feedback and
\* by mix.
C40_DelayedCopyByMix ==
    [][HeldThenSilent
          => /\ DryOnly(fx_call)
             /\ \A k \in DOMAIN fx_call'.output :
                   /\ FirstRepeat(k)
                         => fx_call'.output[k] = Pct(HeldSample(k), 30)
                   /\ SecondRepeat(k)
                         => fx_call'.output[k] = Pct(Pct(HeldSample(k), 40), 30)]_vars

\* a full-scale frame held for a delay of 2 frames, then 4 frames of
\* silence: two frames of the first repeat, two of the second
C40_Witness ==
    /\ fx.sample_rate_ = 8
    /\ fx_call.calls = 2 /\ fx_call.effect = "Echo" /\ fx_call.frame_count = 4
    /\ fx_call.input = FilledBuffer(<<0, 0>>, 4)
    /\ fx_call.output = <<Pct(Unit, 30), Pct(Unit, 30), Pct(Unit, 30), Pct(Unit, 30),
                          Pct(Pct(Unit, 40), 30), Pct(Pct(Unit, 40), 30),
                          Pct(Pct(Unit, 40), 30), Pct(Pct(Unit, 40), 30)>>

====
